---- MODULE Spec2Model ----
(***************************************************************************)
(* GhostWriter: the desktop shell (main process), the RAG service and the  *)
(* model manager, as a state machine.  Every IPC handler is one action;    *)
(* the model manager's and the RAG service's methods are operators that    *)
(* the actions apply.                                                      *)
(***************************************************************************)
EXTENDS Integers, Sequences, FiniteSets, TLC

VARIABLES
  phase,            \* "off" before app.whenReady, then "ready" or "failed"
  cliServer,        \* TRUE once setupCLIServer() has run
  config,           \* ModelManager.config
  file,             \* ghostwriter-config.json on disk
  llmService,       \* ModelManager.llmService
  embeddingService, \* ModelManager.embeddingService
  llmInitOk,        \* history: an initializeLLM() has resolved since launch
  embInitOk,        \* history: an initializeEmbedding() has resolved since launch
  embSwitchOk,      \* history: a setEmbeddingProvider() has resolved since launch
  ollamaInstalled,  \* environment: `ollama --version` exits with status 0
  docs,             \* rows of the documents table, in rowid order
  last,             \* the last completed call and what it returned or threw
  searchReq,        \* a searchAndGenerate() call in flight, or its response
  ingestReq,        \* an ingestDocument() call in flight, or its response
  seen,             \* history: what overlapping searches saw of the insert
  codeMetrics,      \* rows of the code_metrics table, in rowid order
  codeEvolution,    \* rows of the code_evolution table, in rowid order
  projectAnalytics, \* rows of the project_analytics table, in rowid order
  today,            \* environment: the current day (dates are in hours)
  genFiles,         \* .gw/payloads: the inode of the target and of target.tmp
  inodeData,        \* the content of every inode, a sequence of chunks
  gen,              \* the generator processes: position, open file, offset
  cliConfig,        \* .gw/config.json
  runs,             \* history: generator runs started so far
  switchReq,        \* a setLLMProvider() call suspended at an initialization
  stacks,           \* the notifications state of every useNotification() caller
  overlay,          \* the Notification components NotificationContainer renders
  settingsMounted,  \* the Settings page is the routed page
  notified,         \* history: notifications added so far
  chat              \* the Chat page: loading, result, queries in flight

flightVars == <<searchReq, ingestReq, seen>>
analyticsVars == <<codeMetrics, codeEvolution, projectAnalytics, today>>
genVars == <<genFiles, inodeData, gen, cliConfig, runs>>
uiVars == <<stacks, overlay, settingsMounted, notified, chat>>
sessionVars == <<switchReq, uiVars>>
extVars == <<flightVars, analyticsVars, genVars, sessionVars>>

vars == <<phase, cliServer, config, file, llmService, embeddingService,
          llmInitOk, embInitOk, embSwitchOk, ollamaInstalled, docs, last, extVars>>

mmVars == <<config, file, llmService, embeddingService, llmInitOk, embInitOk>>
envVars == <<ollamaInstalled>>
coreVars == <<phase, cliServer, mmVars, embSwitchOk, envVars, docs>>

(***************************************************************************)
(* Bounds of the model.                                                    *)
(***************************************************************************)
MaxDocs == 2      \* rows the documents table may hold
NumIds == 2       \* distinct ids `doc-${Date.now()}-${random}` may yield
MaxFiles == 2     \* files in one commit payload
MaxK == 2         \* largest k passed to searchAndGenerate
MaxMetrics == 2   \* most rows of code_metrics
MaxEvolution == 3 \* most rows of code_evolution
MaxDay == 1       \* last day the clock reaches
NumChunks == 2    \* write() calls one writeFileSync takes
MaxRuns == 3      \* generator runs started in one behaviour
MaxNotifications == 2  \* notifications added in one behaviour
MaxQueries == 2   \* queries submitted on the Chat page in one behaviour

(***************************************************************************)
(* API keys are character sequences; the empty sequence is the falsy key   *)
(* (null, undefined or '').                                                *)
(***************************************************************************)
NoKey == <<>>
KeyValid == <<"A", "I", "z", "a", "S", "y", "0", "1", "2", "3", "4", "5", "6">>
KeyBad == <<"b", "a", "d", "k", "e", "y", "0", "0">>
KeyShort == <<"h", "f", "_">>
ValidGeminiKeys == {KeyValid}

NoModel == ""
NoErr == ""
ErrOllamaNotFound == "Ollama not found. Please install Ollama first."
ErrGeminiKeyRequired == "Gemini API key is required"
ErrGeminiValidation == "Gemini API key validation failed"
ErrLLMNotInitialized == "LLM service not initialized"
ErrEmbeddingNotInitialized == "Embedding service not initialized"
ErrUnsupportedLLM(p) == "Unsupported LLM provider: " \o p
ErrUnsupportedEmbedding(p) == "Unsupported embedding provider: " \o p

DefaultConfig ==
  [llmProvider |-> "ollama", embeddingProvider |-> "ollama",
   ollamaModel |-> "phi3:mini", geminiApiKey |-> NoKey,
   huggingfaceApiKey |-> NoKey, openaiApiKey |-> NoKey]

NoFile == [exists |-> FALSE, data |-> DefaultConfig]

NoLLMService == [kind |-> "none", apiKey |-> NoKey, model |-> NoModel, initialized |-> FALSE]
\* new OllamaService() with the configured model as its model.
NewOllamaService_ConfiguredModel ==
  [kind |-> "ollama", apiKey |-> NoKey, model |-> config.ollamaModel, initialized |-> FALSE]
\* new OllamaService(): DEFAULT_MODEL is the constant "phi3:mini".
NewOllamaService == [kind |-> "ollama", apiKey |-> NoKey, model |-> "phi3:mini", initialized |-> FALSE]
NewGeminiService(apiKey) ==
  [kind |-> "gemini", apiKey |-> apiKey, model |-> "gemini-2.5-flash", initialized |-> FALSE]

NoEmbeddingService ==
  [kind |-> "none", provider |-> "", huggingfaceApiKey |-> NoKey,
   openaiApiKey |-> NoKey, apiKey |-> NoKey, initialized |-> FALSE]
NewEmbeddingService(c) ==
  [kind |-> "embedding",
   provider |-> IF c.provider = "" THEN "ollama" ELSE c.provider,
   huggingfaceApiKey |-> c.huggingfaceApiKey, openaiApiKey |-> c.openaiApiKey,
   apiKey |-> NoKey, initialized |-> FALSE]

(***************************************************************************)
(* The model manager.  Its methods take and return the manager's state m   *)
(* = [config, file, llmService, embeddingService, llmInitOk, embInitOk,    *)
(* err]; err is the message of the error the method threw, NoErr when it   *)
(* returned.                                                               *)
(***************************************************************************)
loadConfig(f) == IF f.exists THEN f.data ELSE DefaultConfig

\* The config directory is the one loadConfig() created, so the write succeeds.
saveConfig(m) == [m EXCEPT !.file = [exists |-> TRUE, data |-> m.config]]

NewModelManager(f) ==
  [config |-> loadConfig(f), file |-> f, llmService |-> NoLLMService,
   embeddingService |-> NoEmbeddingService, llmInitOk |-> FALSE,
   embInitOk |-> FALSE, err |-> NoErr]

\* OllamaService.initialize(): the message it throws, NoErr when it resolves.
OllamaInitialize == IF ollamaInstalled THEN NoErr ELSE ErrOllamaNotFound

\* GeminiService.initialize(): the key is tested with one generation request,
\* which the hosted API answers for a valid key only.
GeminiInitialize(apiKey) ==
  IF apiKey = NoKey THEN ErrGeminiKeyRequired
  ELSE IF apiKey \in ValidGeminiKeys THEN NoErr
  ELSE ErrGeminiValidation

\* initializeLLM with the missing key reported instead of the fallback.
initializeLLM_NoFallback(m) ==
  CASE m.config.llmProvider = "ollama" ->
         LET e == OllamaInitialize IN
         [m EXCEPT !.llmService = [NewOllamaService EXCEPT !.initialized = (e = NoErr)],
                   !.llmInitOk = @ \/ e = NoErr,
                   !.err = e]
    [] m.config.llmProvider = "gemini" ->
         LET e == GeminiInitialize(m.config.geminiApiKey) IN
         [m EXCEPT !.llmService = [NewGeminiService(m.config.geminiApiKey)
                                     EXCEPT !.initialized = (e = NoErr)],
                   !.llmInitOk = @ \/ e = NoErr,
                   !.err = e]
    [] OTHER -> [m EXCEPT !.err = ErrUnsupportedLLM(m.config.llmProvider)]

RECURSIVE initializeLLM(_)
initializeLLM(m) ==
  CASE m.config.llmProvider = "ollama" ->
         LET e == OllamaInitialize IN
         [m EXCEPT !.llmService = [NewOllamaService EXCEPT !.initialized = (e = NoErr)],
                   !.llmInitOk = @ \/ e = NoErr,
                   !.err = e]
    [] m.config.llmProvider = "gemini" ->
         IF m.config.geminiApiKey = NoKey
         THEN initializeLLM(saveConfig([m EXCEPT !.config.llmProvider = "ollama"]))
         ELSE LET e == GeminiInitialize(m.config.geminiApiKey) IN
              [m EXCEPT !.llmService = [NewGeminiService(m.config.geminiApiKey)
                                          EXCEPT !.initialized = (e = NoErr)],
                        !.llmInitOk = @ \/ e = NoErr,
                        !.err = e]
    [] OTHER -> [m EXCEPT !.err = ErrUnsupportedLLM(m.config.llmProvider)]

\* EmbeddingService.initialize() on a freshly constructed service.
EmbeddingInitialize(svc) ==
  CASE svc.provider = "ollama" -> [svc |-> [svc EXCEPT !.initialized = TRUE], err |-> NoErr]
    [] svc.provider = "huggingface" ->
         [svc |-> [svc EXCEPT !.apiKey = svc.huggingfaceApiKey, !.initialized = TRUE],
          err |-> NoErr]
    [] svc.provider = "openai" ->
         [svc |-> [svc EXCEPT !.apiKey = svc.openaiApiKey, !.initialized = TRUE],
          err |-> NoErr]
    [] OTHER -> [svc |-> svc, err |-> ErrUnsupportedEmbedding(svc.provider)]

initializeEmbedding(m) ==
  LET r == EmbeddingInitialize(NewEmbeddingService(
             [provider |-> m.config.embeddingProvider,
              huggingfaceApiKey |-> m.config.huggingfaceApiKey,
              openaiApiKey |-> m.config.openaiApiKey]))
  IN [m EXCEPT !.embeddingService = r.svc,
               !.embInitOk = @ \/ r.err = NoErr,
               !.err = r.err]

\* initialize with the embedding adapter initialized first.
initialize_EmbeddingFirst(m) ==
  LET b == initializeEmbedding(m) IN
  IF b.err # NoErr THEN b ELSE initializeLLM(b)

\* ModelManager.initialize()
initialize(m) ==
  LET a == initializeLLM(m) IN
  IF a.err # NoErr THEN a ELSE initializeEmbedding(a)

\* The first half of setLLMProvider: the assignments and the save.
ApplyLLMProvider(m, provider, options) ==
  LET c1 == [m.config EXCEPT !.llmProvider = provider]
      c2 == IF provider = "gemini" /\ options.apiKey # NoKey
            THEN [c1 EXCEPT !.geminiApiKey = options.apiKey] ELSE c1
      c3 == IF provider = "ollama" /\ options.model # NoModel
            THEN [c2 EXCEPT !.ollamaModel = options.model] ELSE c2
  IN saveConfig([m EXCEPT !.config = c3])

\* The catch block of setLLMProvider.
RollbackLLMProvider(m, previousProvider, error) ==
  LET b == initializeLLM(saveConfig([m EXCEPT !.config.llmProvider = previousProvider]))
  IN IF b.err # NoErr THEN b ELSE [b EXCEPT !.err = error]

\* Returns the manager's state with err = the message thrown to the caller
\* and origErr = the message initializeLLM() threw for the requested provider.
setLLMProvider(m, provider, options) ==
  LET previousProvider == m.config.llmProvider
      a == initializeLLM(ApplyLLMProvider(m, provider, options))
  IN IF a.err = NoErr
     THEN [m |-> a, origErr |-> NoErr]
     ELSE [m |-> RollbackLLMProvider(a, previousProvider, a.err), origErr |-> a.err]

\* The assignments and the save of setEmbeddingProvider.
ApplyEmbeddingProvider(m, provider, apiKey) ==
  LET c1 == [m.config EXCEPT !.embeddingProvider = provider]
      c2 == IF apiKey = NoKey THEN c1
            ELSE IF provider = "huggingface" THEN [c1 EXCEPT !.huggingfaceApiKey = apiKey]
            ELSE IF provider = "openai" THEN [c1 EXCEPT !.openaiApiKey = apiKey]
            ELSE c1
  IN saveConfig([m EXCEPT !.config = c2])

\* setEmbeddingProvider with the rollback that setLLMProvider has.
setEmbeddingProvider_Rollback(m, provider, apiKey) ==
  LET a == initializeEmbedding(ApplyEmbeddingProvider(m, provider, apiKey))
  IN IF a.err = NoErr THEN a
     ELSE [initializeEmbedding(saveConfig(
             [a EXCEPT !.config.embeddingProvider = m.config.embeddingProvider]))
           EXCEPT !.err = a.err]

setEmbeddingProvider(m, provider, apiKey) ==
  initializeEmbedding(ApplyEmbeddingProvider(m, provider, apiKey))

isProviderConfigured(c, provider) ==
  CASE provider = "ollama" -> TRUE
    [] provider = "gemini" -> c.geminiApiKey # NoKey
    [] OTHER -> FALSE

Ellipsis == <<".", ".", ".">>

MaskKey(key) ==
  IF key = NoKey THEN NoKey
  ELSE IF Len(key) > 12
       THEN SubSeq(key, 1, 8) \o Ellipsis \o SubSeq(key, Len(key) - 3, Len(key))
       ELSE SubSeq(key, 1, IF Len(key) < 4 THEN Len(key) ELSE 4) \o Ellipsis

getMaskedApiKey(c, provider) ==
  MaskKey(CASE provider = "gemini" -> c.geminiApiKey
            [] provider = "huggingface" -> c.huggingfaceApiKey
            [] provider = "openai" -> c.openaiApiKey
            [] OTHER -> NoKey)

getConfig(c) ==
  [llmProvider |-> c.llmProvider, embeddingProvider |-> c.embeddingProvider,
   ollamaModel |-> c.ollamaModel, geminiApiKey |-> c.geminiApiKey,
   huggingfaceApiKey |-> c.huggingfaceApiKey, openaiApiKey |-> c.openaiApiKey,
   maskedKeys |-> [gemini |-> getMaskedApiKey(c, "gemini"),
                   huggingface |-> getMaskedApiKey(c, "huggingface"),
                   openai |-> getMaskedApiKey(c, "openai")],
   configured |-> [ollama |-> isProviderConfigured(c, "ollama"),
                   gemini |-> isProviderConfigured(c, "gemini")]]

\* The getters: the service, or the message of the error they throw.
getLLMService(svc) ==
  IF svc.kind = "none" THEN [err |-> ErrLLMNotInitialized, svc |-> svc]
  ELSE [err |-> NoErr, svc |-> svc]

getEmbeddingService(svc) ==
  IF svc.kind = "none" THEN [err |-> ErrEmbeddingNotInitialized, svc |-> svc]
  ELSE [err |-> NoErr, svc |-> svc]

ThisManager ==
  [config |-> config, file |-> file, llmService |-> llmService,
   embeddingService |-> embeddingService, llmInitOk |-> llmInitOk,
   embInitOk |-> embInitOk, err |-> NoErr]

SetManager(m) ==
  /\ config' = m.config
  /\ file' = m.file
  /\ llmService' = m.llmService
  /\ embeddingService' = m.embeddingService
  /\ llmInitOk' = m.llmInitOk
  /\ embInitOk' = m.embInitOk

(***************************************************************************)
(* The RAG service.  Texts and file contents are character sequences, an   *)
(* embedding is a sequence of integers, a score is in thousandths.  An id  *)
(* is a number standing for the string `doc-${Date.now()}-${random}`: two  *)
(* calls in the same millisecond that draw the same suffix get the same id.*)
(***************************************************************************)
Projects == {"alpha", "beta"}
NoProject == ""
DemoAuthors == <<"Alice", "Bob", "Charlie">>

ErrOllamaEmbedding == "No embedding returned from Ollama"
ErrInvalidResponse == "Invalid response"
ErrNoResponse == "No response from LLM"
ErrGeminiApi == "Gemini API error"

\* The vectors an embedding endpoint may return; each provider has its own length.
VectorsOf(provider) ==
  CASE provider = "ollama" -> {<<1, 0>>, <<-1, 0>>, <<3, 4>>}
    [] provider = "huggingface" -> {<<1, 0, 0>>, <<0, 3, 4>>}
    [] provider = "openai" -> {<<1>>, <<-1>>}
    [] OTHER -> {}

\* EmbeddingService.embedText(): every outcome the call may have.
EmbedResults(svc) ==
  IF svc.provider \in {"ollama", "huggingface", "openai"}
  THEN {[err |-> NoErr, vec |-> v] : v \in VectorsOf(svc.provider)}
       \cup {[err |-> IF svc.provider = "ollama" THEN ErrOllamaEmbedding
                      ELSE ErrInvalidResponse,
              vec |-> <<>>]}
  ELSE {[err |-> ErrUnsupportedEmbedding(svc.provider), vec |-> <<>>]}

\* generateWithContext(): the message it throws, NoErr when it answers.
GenerateResults(svc) ==
  {NoErr, IF svc.kind = "gemini" THEN ErrGeminiApi ELSE ErrNoResponse}

IsSpace(c) == c \in {" ", "\t", "\r", "\n"}

RECURSIVE ReplaceCRLF(_)
ReplaceCRLF(s) ==
  IF s = <<>> THEN <<>>
  ELSE IF Len(s) >= 2 /\ s[1] = "\r" /\ s[2] = "\n"
       THEN <<"\n">> \o ReplaceCRLF(SubSeq(s, 3, Len(s)))
       ELSE <<s[1]>> \o ReplaceCRLF(Tail(s))

RECURSIVE ReplaceChar(_, _, _)
ReplaceChar(s, c, r) ==
  IF s = <<>> THEN <<>>
  ELSE (IF s[1] = c THEN r ELSE <<s[1]>>) \o ReplaceChar(Tail(s), c, r)

RECURSIVE TrimLeft(_)
TrimLeft(s) == IF s # <<>> /\ IsSpace(s[1]) THEN TrimLeft(Tail(s)) ELSE s

RECURSIVE TrimRight(_)
TrimRight(s) ==
  IF s # <<>> /\ IsSpace(s[Len(s)]) THEN TrimRight(SubSeq(s, 1, Len(s) - 1)) ELSE s

Trim(s) == TrimRight(TrimLeft(s))

\* The last index of the run of whitespace that starts at index i.
RECURSIVE SpaceRunEnd(_, _)
SpaceRunEnd(s, i) ==
  IF i + 1 <= Len(s) /\ IsSpace(s[i + 1]) THEN SpaceRunEnd(s, i + 1) ELSE i

\* replace(/\n\s*\n\s*\n+/g, '\n\n')
RECURSIVE CollapseBlankLines(_)
CollapseBlankLines(s) ==
  IF s = <<>> THEN <<>>
  ELSE IF s[1] # "\n" THEN <<s[1]>> \o CollapseBlankLines(Tail(s))
  ELSE LET e == SpaceRunEnd(s, 1)
           nl == {i \in 1..e : s[i] = "\n"}
           lastNl == CHOOSE i \in nl : \A j \in nl : j <= i
       IN IF Cardinality(nl) >= 3
          THEN <<"\n", "\n">> \o CollapseBlankLines(SubSeq(s, lastNl + 1, Len(s)))
          ELSE <<s[1]>> \o CollapseBlankLines(Tail(s))

\* path.extname() of the paths of the model.
ExtName(filePath) ==
  CASE filePath = "src/a.js" -> ".js"
    [] filePath = "lib/b.py" -> ".py"
    [] OTHER -> ""

\* The .json branch: JSON.parse() throws on every text over the model's
\* alphabet, and the catch returns the normalized text as it is.
JsonPretty(cleaned) == cleaned

cleanFileContent(content, filePath) ==
  IF content = <<>> THEN <<>>
  ELSE LET cleaned == CollapseBlankLines(Trim(
                        ReplaceChar(ReplaceChar(ReplaceCRLF(content), "\r", <<"\n">>),
                                    "\t", <<" ", " ">>)))
       IN IF ExtName(filePath) = ".json" THEN JsonPretty(cleaned) ELSE cleaned

\* An upsert keyed by project and file path instead of the id.
Upsert_ByPath(rows, row) ==
  LET same(i) == /\ rows[i].project_name = row.project_name
                 /\ rows[i].file_path = row.file_path
  IN IF \E i \in 1..Len(rows) : same(i)
     THEN [i \in 1..Len(rows) |-> IF same(i) THEN row ELSE rows[i]]
     ELSE Append(rows, row)

\* INSERT ... ON CONFLICT(id) DO UPDATE
Upsert(rows, row) ==
  IF \E i \in 1..Len(rows) : rows[i].id = row.id
  THEN [i \in 1..Len(rows) |-> IF rows[i].id = row.id THEN row ELSE rows[i]]
  ELSE Append(rows, row)

\* ingestDocument with the id it generated and the outcome e of its
\* embedText() call; err is the message thrown, NoErr when it returned.
ingestDocument(rows, svc, text, metadata, id, e) ==
  IF getEmbeddingService(svc).err # NoErr
  THEN [docs |-> rows, err |-> getEmbeddingService(svc).err, id |-> id]
  ELSE IF e.err # NoErr
  THEN [docs |-> rows, err |-> e.err, id |-> id]
  ELSE [docs |-> Upsert(rows, [id |-> id, text |-> text,
                               project_name |-> metadata.project_name,
                               file_path |-> metadata.file_path,
                               author |-> metadata.author,
                               embedding |-> e.vec]),
        err |-> NoErr, id |-> id]

\* The loop of ingestCommit leaving the loop at the first file that throws.
RECURSIVE IngestFiles_AbortOnError(_, _, _, _, _, _, _)
IngestFiles_AbortOnError(rows, svc, commitData, ids, es, i, results) ==
  IF i > Len(commitData.files) THEN [docs |-> rows, results |-> results]
  ELSE LET f == commitData.files[i]
           fileMetadata == [project_name |-> commitData.projectName,
                            file_path |-> f.path,
                            author |-> commitData.metadata.author]
           cleanContent == cleanFileContent(f.content, f.path)
           r == ingestDocument(rows, svc, cleanContent, fileMetadata, ids[i], es[i])
       IN IF Trim(cleanContent) = <<>>
          THEN IngestFiles_AbortOnError(rows, svc, commitData, ids, es, i + 1, results)
          ELSE IF r.err = NoErr
          THEN IngestFiles_AbortOnError(r.docs, svc, commitData, ids, es, i + 1,
                 Append(results, [file_path |-> f.path, document_id |-> r.id,
                                  status |-> "success",
                                  content_length |-> Len(cleanContent)]))
          ELSE [docs |-> rows,
                results |-> Append(results, [file_path |-> f.path, status |-> "error",
                                             error |-> r.err])]

\* The loop of ingestCommit from file i on: ids[i] and es[i] are the id and
\* the embedText() outcome of the i-th file's ingestDocument call.
RECURSIVE IngestFiles(_, _, _, _, _, _, _)
IngestFiles(rows, svc, commitData, ids, es, i, results) ==
  IF i > Len(commitData.files) THEN [docs |-> rows, results |-> results]
  ELSE LET f == commitData.files[i]
           fileMetadata == [project_name |-> commitData.projectName,
                            file_path |-> f.path,
                            author |-> commitData.metadata.author]
           cleanContent == cleanFileContent(f.content, f.path)
           r == ingestDocument(rows, svc, cleanContent, fileMetadata, ids[i], es[i])
       IN IF Trim(cleanContent) = <<>>
          THEN IngestFiles(rows, svc, commitData, ids, es, i + 1, results)
          ELSE IF r.err = NoErr
          THEN IngestFiles(r.docs, svc, commitData, ids, es, i + 1,
                 Append(results, [file_path |-> f.path, document_id |-> r.id,
                                  status |-> "success",
                                  content_length |-> Len(cleanContent)]))
          ELSE IngestFiles(rows, svc, commitData, ids, es, i + 1,
                 Append(results, [file_path |-> f.path, status |-> "error",
                                  error |-> r.err]))

CountStatus(results, st) == Cardinality({i \in 1..Len(results) : results[i].status = st})

ingestCommit(rows, svc, commitData, ids, es) ==
  LET r == IngestFiles(rows, svc, commitData, ids, es, 1, <<>>)
  IN [docs |-> r.docs,
      summary |-> [project_name |-> commitData.projectName,
                   total_files |-> Len(commitData.files),
                   successful |-> CountStatus(r.results, "success"),
                   failed |-> CountStatus(r.results, "error"),
                   results |-> r.results]]

Digits == <<"0", "1", "2", "3", "4", "5", "6", "7", "8", "9">>

RECURSIVE IntStr(_)
IntStr(n) == IF n < 10 THEN Digits[n + 1] ELSE IntStr(n \div 10) \o Digits[(n % 10) + 1]

DemoText(i) == <<"// Demo function ", IntStr(i)>>
DemoPath(i) == "src/demo/file" \o IntStr(i) \o ".js"

\* The loop of bulkIngestDemo from index i on; the first error ends the call.
RECURSIVE DemoLoop(_, _, _, _, _, _, _)
DemoLoop(rows, svc, count, ids, es, i, results) ==
  IF i >= count THEN [docs |-> rows, err |-> NoErr, results |-> results]
  ELSE LET metadata == [project_name |-> "demo-project", file_path |-> DemoPath(i),
                        author |-> DemoAuthors[(i % 3) + 1]]
           r == ingestDocument(rows, svc, DemoText(i), metadata, ids[i + 1], es[i + 1])
       IN IF r.err # NoErr THEN [docs |-> rows, err |-> r.err, results |-> results]
          ELSE DemoLoop(r.docs, svc, count, ids, es, i + 1,
                        Append(results, [id |-> r.id, status |-> "ingested"]))

bulkIngestDemo(rows, svc, count, ids, es) ==
  LET r == DemoLoop(rows, svc, count, ids, es, 0, <<>>)
  IN [docs |-> r.docs, err |-> r.err,
      ret |-> [ingested |-> Len(r.results), results |-> r.results]]

Dot(a, b) == LET RECURSIVE S(_)
                 S(i) == IF i = 0 THEN 0 ELSE a[i] * b[i] + S(i - 1)
             IN S(Len(a))

ISqrt(n) == CHOOSE r \in 0..n : r * r <= n /\ (r + 1) * (r + 1) > n

\* Truncation toward zero, as the score's decimals are cut.
QuotientToZero(n, d) == IF n >= 0 THEN n \div d ELSE -((-n) \div d)

\* cosine(a, b) comparing the vectors over their common prefix.
cosine_CommonPrefix(a, b) ==
  LET n == IF Len(a) < Len(b) THEN Len(a) ELSE Len(b)
      p == SubSeq(a, 1, n)
      q == SubSeq(b, 1, n)
      den == ISqrt(Dot(p, p)) * ISqrt(Dot(q, q))
  IN IF a = <<>> \/ b = <<>> THEN -1000
     ELSE IF den = 0 THEN 0 ELSE QuotientToZero(Dot(p, q) * 1000, den)

\* cosine(a, b) in thousandths; the 1e-8 of the denominator only matters
\* when a norm is 0, where the quotient is 0.
cosine(a, b) ==
  IF a = <<>> \/ b = <<>> \/ Len(a) # Len(b) THEN -1000
  ELSE LET den == ISqrt(Dot(a, a)) * ISqrt(Dot(b, b))
       IN IF den = 0 THEN 0 ELSE QuotientToZero(Dot(a, b) * 1000, den)

\* (score * 100).toFixed(1) + '%'
RelevanceScore(score) ==
  (IF score < 0 THEN "-" ELSE "")
  \o IntStr((IF score < 0 THEN -score ELSE score) \div 10) \o "."
  \o IntStr((IF score < 0 THEN -score ELSE score) % 10) \o "%"

RECURSIVE FilterProject(_, _)
FilterProject(rows, projectName) ==
  IF rows = <<>> THEN <<>>
  ELSE (IF Head(rows).project_name = projectName THEN <<Head(rows)>> ELSE <<>>)
       \o FilterProject(Tail(rows), projectName)

\* The insertion step of an ascending sort.
RECURSIVE InsertByScore_Ascending(_, _)
InsertByScore_Ascending(sorted, x) ==
  IF sorted = <<>> THEN <<x>>
  ELSE IF Head(sorted).score <= x.score
       THEN <<Head(sorted)>> \o InsertByScore_Ascending(Tail(sorted), x)
       ELSE <<x>> \o sorted

\* Array.prototype.sort with (a, b) => b.score - a.score: stable, descending.
RECURSIVE InsertByScore(_, _)
InsertByScore(sorted, x) ==
  IF sorted = <<>> THEN <<x>>
  ELSE IF Head(sorted).score >= x.score
       THEN <<Head(sorted)>> \o InsertByScore(Tail(sorted), x)
       ELSE <<x>> \o sorted

RECURSIVE SortByScore(_)
SortByScore(s) ==
  IF s = <<>> THEN <<>>
  ELSE InsertByScore(SortByScore(SubSeq(s, 1, Len(s) - 1)), s[Len(s)])

Slice(s, k) == SubSeq(s, 1, IF k < Len(s) THEN k ELSE Len(s))

Scored(rows, queryEmbedding) ==
  [i \in 1..Len(rows) |->
     [id |-> rows[i].id, text |-> rows[i].text, project_name |-> rows[i].project_name,
      file_path |-> rows[i].file_path, author |-> rows[i].author,
      embedding |-> rows[i].embedding,
      score |-> cosine(queryEmbedding, rows[i].embedding)]]

TopResults(rows, queryEmbedding, k, projectName) ==
  Slice(SortByScore(Scored(IF projectName # NoProject
                           THEN FilterProject(rows, projectName) ELSE rows,
                           queryEmbedding)), k)

\* searchAndGenerate with the outcome e of its embedText() call and the
\* outcome g of its generateWithContext() call.
searchAndGenerate(rows, esvc, lsvc, k, projectName, e, g) ==
  LET topResults == TopResults(rows, e.vec, k, projectName)
      failed(msg) == [err |-> msg, project |-> projectName, topResults |-> <<>>,
                      sources |-> <<>>]
  IN IF getEmbeddingService(esvc).err # NoErr THEN failed(getEmbeddingService(esvc).err)
     ELSE IF e.err # NoErr THEN failed(e.err)
     ELSE IF getLLMService(lsvc).err # NoErr THEN failed(getLLMService(lsvc).err)
     ELSE IF g # NoErr THEN failed(g)
     ELSE [err |-> NoErr, project |-> projectName, topResults |-> topResults,
           sources |-> [i \in 1..Len(topResults) |->
                          [file_path |-> topResults[i].file_path,
                           author |-> topResults[i].author,
                           relevance_score |-> RelevanceScore(topResults[i].score),
                           preview |-> topResults[i].text]]]

\* [...new Set(values)]: the distinct values in order of first appearance.
RECURSIVE Distinct(_)
Distinct(s) ==
  IF s = <<>> THEN <<>>
  ELSE LET d == Distinct(SubSeq(s, 1, Len(s) - 1))
       IN IF \E i \in 1..Len(d) : d[i] = s[Len(s)] THEN d ELSE Append(d, s[Len(s)])

RECURSIVE NonEmpty(_)
NonEmpty(s) ==
  IF s = <<>> THEN <<>>
  ELSE (IF Head(s) # "" THEN <<Head(s)>> ELSE <<>>) \o NonEmpty(Tail(s))

\* getProjects collecting the authors of every project's documents.
getProjects_AllAuthors(rows) ==
  LET projects == Distinct([i \in 1..Len(rows) |-> rows[i].project_name])
  IN [p \in 1..Len(projects) |->
        LET projectDocs == FilterProject(rows, projects[p])
        IN [name |-> projects[p],
            documents |-> Len(projectDocs),
            authors |-> Distinct(NonEmpty([i \in 1..Len(rows) |-> rows[i].author]))]]

\* RAGService.getProjects (last_updated left out).
getProjects(rows) ==
  LET projects == Distinct([i \in 1..Len(rows) |-> rows[i].project_name])
  IN [p \in 1..Len(projects) |->
        LET projectDocs == FilterProject(rows, projects[p])
        IN [name |-> projects[p],
            documents |-> Len(projectDocs),
            authors |-> Distinct(NonEmpty([i \in 1..Len(projectDocs) |->
                                             projectDocs[i].author]))]]

(***************************************************************************)
(* The desktop shell: the startup handler and the IPC handlers.  last is   *)
(* the handler's response {success, data, error} with the call's inputs.   *)
(***************************************************************************)
NoCall == [op |-> "none", ok |-> TRUE, err |-> NoErr]
IdleReq == [pc |-> "idle"]

(***************************************************************************)
(* The payload generator of the CLI.  A file is a name bound to an inode;  *)
(* an inode's content is a sequence of chunks <<run, index>>.  A process   *)
(* may be killed between any two system calls.                             *)
(***************************************************************************)
Procs == {1, 2}
Inodes == 1..4
NoInode == 0
NoHash == ""

\* loadConfig's defaults, and the file a user may have written.
DefaultCliConfig == [electronUrl |-> TRUE, autoIngest |-> TRUE]
NoCliConfig == [exists |-> FALSE]
CliConfigFiles ==
  {[exists |-> TRUE, data |-> [electronUrl |-> u, autoIngest |-> a]] :
     u \in BOOLEAN, a \in BOOLEAN}

IdleGen == [pc |-> "idle", fd |-> NoInode, off |-> 0, run |-> 0]

InitGenerator ==
  /\ genFiles = [target |-> NoInode, tmp |-> NoInode]
  /\ inodeData = [i \in Inodes |-> <<>>]
  /\ gen = [p \in Procs |-> IdleGen]
  /\ cliConfig = NoCliConfig
  /\ runs = 0

\* No request is in flight.
InitFlight ==
  /\ searchReq = IdleReq
  /\ ingestReq = IdleReq
  /\ seen = {}

\* new AnalyticsService(db) on a new database: the tables are empty.
InitAnalytics ==
  /\ codeMetrics = <<>>
  /\ codeEvolution = <<>>
  /\ projectAnalytics = <<>>
  /\ today = 0

\* The components that call useNotification(): each call of the hook is a
\* useState of the calling component.
Hooks == {"ModelSelector", "Settings", "NotificationContainer"}

\* No provider switch is suspended; the window shows the Chat page, no
\* notification was added and no query submitted.
InitSession ==
  /\ switchReq = IdleReq
  /\ stacks = [h \in Hooks |-> <<>>]
  /\ overlay = {}
  /\ settingsMounted = FALSE
  /\ notified = 0
  /\ chat = [query |-> <<>>, loading |-> FALSE, result |-> <<>>, error |-> <<>>,
             inFlight |-> {}, submitted |-> 0]

InitExt ==
  /\ InitFlight
  /\ InitAnalytics
  /\ InitGenerator
  /\ InitSession

Init ==
  /\ phase = "off"
  /\ cliServer = FALSE
  /\ config = DefaultConfig
  /\ file = NoFile
  /\ llmService = NoLLMService
  /\ embeddingService = NoEmbeddingService
  /\ llmInitOk = FALSE
  /\ embInitOk = FALSE
  /\ embSwitchOk = FALSE
  /\ ollamaInstalled \in BOOLEAN
  /\ docs = <<>>
  /\ last = NoCall
  /\ InitExt

\* app.whenReady(): new RAGService(), ragService.initialize(), setupCLIServer().
Launch ==
  /\ phase = "off"
  /\ LET m == initialize(NewModelManager(file))
     IN /\ SetManager(m)
        /\ phase' = IF m.err = NoErr THEN "ready" ELSE "failed"
        /\ cliServer' = (m.err = NoErr)
        /\ last' = [op |-> "launch", ok |-> m.err = NoErr, err |-> m.err]
  /\ embSwitchOk' = FALSE
  /\ UNCHANGED <<extVars, envVars, docs>>

\* The application is closed; the config file and the database stay on disk.
Quit ==
  /\ phase # "off"
  /\ phase' = "off"
  /\ cliServer' = FALSE
  /\ SetManager([NewModelManager(file) EXCEPT !.config = loadConfig(file)])
  /\ embSwitchOk' = FALSE
  /\ last' = NoCall
  /\ UNCHANGED <<extVars, envVars, docs>>

\* The local runtime is installed or removed.
ToggleOllama ==
  /\ ollamaInstalled' = ~ollamaInstalled
  /\ UNCHANGED <<extVars, phase, cliServer, mmVars, embSwitchOk, docs, last>>

\* ipcMain.handle('model:set-llm-provider')
SetLLMProvider(provider, options) ==
  /\ phase # "off"
  /\ LET r == setLLMProvider(ThisManager, provider, options)
     IN /\ SetManager(r.m)
        /\ last' = [op |-> "setLLMProvider", ok |-> r.m.err = NoErr, err |-> r.m.err,
                    origErr |-> r.origErr, pre |-> config, provider |-> provider,
                    options |-> options, ollamaInstalled |-> ollamaInstalled]
  /\ UNCHANGED <<extVars, phase, cliServer, embSwitchOk, envVars, docs>>

\* ipcMain.handle('model:set-embedding-provider')
SetEmbeddingProvider(provider, apiKey) ==
  /\ phase # "off"
  /\ LET m == setEmbeddingProvider(ThisManager, provider, apiKey)
     IN /\ SetManager(m)
        /\ embSwitchOk' = (embSwitchOk \/ m.err = NoErr)
        /\ last' = [op |-> "setEmbeddingProvider", ok |-> m.err = NoErr, err |-> m.err,
                    pre |-> config, provider |-> provider, apiKey |-> apiKey]
  /\ UNCHANGED <<extVars, phase, cliServer, envVars, docs>>

\* ipcMain.handle('model:get-config')
GetConfig ==
  /\ phase # "off"
  /\ last' = [op |-> "getConfig", ok |-> TRUE, err |-> NoErr, ret |-> getConfig(config)]
  /\ UNCHANGED <<extVars, phase, cliServer, mmVars, embSwitchOk, envVars, docs>>

\* ipcMain.handle('rag:ingest'); id is the id the call generates and e the
\* outcome of the embedding request.
IngestDocument(text, metadata, id, e) ==
  /\ phase # "off"
  /\ e \in EmbedResults(embeddingService)
  /\ LET r == ingestDocument(docs, embeddingService, text, metadata, id, e)
     IN /\ Len(r.docs) <= MaxDocs
        /\ docs' = r.docs
        /\ last' = [op |-> "ingestDocument", ok |-> r.err = NoErr, err |-> r.err,
                    metadata |-> metadata, ret |-> [id |-> r.id, status |-> "ingested"]]
  /\ UNCHANGED <<extVars, phase, cliServer, mmVars, embSwitchOk, envVars>>

\* ipcMain.handle('rag:ingest-commit'), past its validation; ids[i] and
\* es[i] are the id and the embedding outcome of the i-th file's ingestion.
IngestCommit(commitData, ids, es) ==
  /\ phase # "off"
  /\ \A i \in 1..Len(commitData.files) : es[i] \in EmbedResults(embeddingService)
  /\ LET r == ingestCommit(docs, embeddingService, commitData, ids, es)
     IN /\ Len(r.docs) <= MaxDocs
        /\ docs' = r.docs
        /\ last' = [op |-> "ingestCommit", ok |-> TRUE, err |-> NoErr,
                    files |-> commitData.files, ret |-> r.summary]
  /\ UNCHANGED <<extVars, phase, cliServer, mmVars, embSwitchOk, envVars>>

\* ipcMain.handle('rag:ingest-demo')
BulkIngestDemo(count, ids, es) ==
  /\ phase # "off"
  /\ \A i \in 1..count : es[i] \in EmbedResults(embeddingService)
  /\ LET r == bulkIngestDemo(docs, embeddingService, count, ids, es)
     IN /\ Len(r.docs) <= MaxDocs
        /\ docs' = r.docs
        /\ last' = [op |-> "bulkIngestDemo", ok |-> r.err = NoErr, err |-> r.err,
                    count |-> count, ret |-> r.ret]
  /\ UNCHANGED <<extVars, phase, cliServer, mmVars, embSwitchOk, envVars>>

\* The body generateWithContext() posts to the generation endpoint (the
\* temperature in tenths); the hosted adapter names its model in the URL.
generateRequest(svc) ==
  IF svc.kind = "ollama"
  THEN [model |-> svc.model, stream |-> FALSE, temperature |-> 2]
  ELSE [model |-> svc.model, temperature |-> 2]

\* The response of the two search handlers; e and g are the outcomes of the
\* embedding and of the generation request, and request is <<>> when no
\* generation request was sent.
SearchResponse(op, k, projectName, e, g) ==
  LET r == searchAndGenerate(docs, embeddingService, llmService, k, projectName, e, g)
      sent == /\ getEmbeddingService(embeddingService).err = NoErr
              /\ e.err = NoErr
              /\ getLLMService(llmService).err = NoErr
  IN [op |-> op, ok |-> r.err = NoErr, err |-> r.err, k |-> k,
      projectName |-> projectName, queryEmbedding |-> e.vec, ret |-> r,
      request |-> IF sent THEN <<generateRequest(llmService)>> ELSE <<>>]

\* ipcMain.handle('rag:search')
Search(k, projectName, e, g) ==
  /\ phase # "off"
  /\ e \in EmbedResults(embeddingService)
  /\ g \in GenerateResults(llmService)
  /\ last' = SearchResponse("search", k, projectName, e, g)
  /\ UNCHANGED <<extVars, phase, cliServer, mmVars, embSwitchOk, envVars, docs>>

\* ipcMain.handle('rag:query')
Query(k, e, g) ==
  /\ phase # "off"
  /\ e \in EmbedResults(embeddingService)
  /\ g \in GenerateResults(llmService)
  /\ last' = SearchResponse("query", k, NoProject, e, g)
  /\ UNCHANGED <<extVars, phase, cliServer, mmVars, embSwitchOk, envVars, docs>>

\* ipcMain.handle('rag:get-projects')
GetProjects ==
  /\ phase # "off"
  /\ last' = [op |-> "getProjects", ok |-> TRUE, err |-> NoErr, ret |-> getProjects(docs)]
  /\ UNCHANGED <<extVars, phase, cliServer, mmVars, embSwitchOk, envVars, docs>>

(***************************************************************************)
(* File-type classification.  A path is a sequence of tokens: names, and   *)
(* the separators "/" and ".".                                             *)
(***************************************************************************)
RECURSIVE Join(_)
Join(tokens) == IF tokens = <<>> THEN "" ELSE Head(tokens) \o Join(Tail(tokens))

\* String.prototype.toLowerCase on a token: the tokens with capitals.
LowerToken(t) ==
  CASE t = "JS" -> "js"
    [] t = "Dockerfile" -> "dockerfile"
    [] t = "Makefile" -> "makefile"
    [] t = "README" -> "readme"
    [] t = "Package" -> "package"
    [] OTHER -> t

toLowerCase(tokens) == [i \in 1..Len(tokens) |-> LowerToken(tokens[i])]

LastIndexOf(tokens, sep) ==
  LET at == {i \in 1..Len(tokens) : tokens[i] = sep}
  IN IF at = {} THEN 0 ELSE CHOOSE i \in at : \A j \in at : j <= i

\* path.basename: what follows the last "/".
basename(filePath) ==
  SubSeq(filePath, LastIndexOf(filePath, "/") + 1, Len(filePath))

\* path.extname: from the last "." of the basename on; nothing when there is
\* no "." or when the only "." is the basename's first character.
extname(filePath) ==
  LET b == basename(filePath)
      dot == LastIndexOf(b, ".")
  IN IF dot <= 1 THEN <<>> ELSE SubSeq(b, dot, Len(b))

\* RAGService.getFileType: the tests in the order of the code.
getFileType(filePath) ==
  LET ext == Join(toLowerCase(extname(filePath)))
      base == Join(toLowerCase(basename(filePath)))
  IN CASE ext \in {".js", ".jsx", ".ts", ".tsx"} -> "javascript"
       [] ext \in {".py"} -> "python"
       [] ext \in {".java"} -> "java"
       [] ext \in {".cpp", ".cc", ".cxx", ".c++"} -> "cpp"
       [] ext \in {".c", ".h"} -> "c"
       [] ext \in {".cs"} -> "csharp"
       [] ext \in {".php"} -> "php"
       [] ext \in {".rb"} -> "ruby"
       [] ext \in {".go"} -> "go"
       [] ext \in {".rs"} -> "rust"
       [] ext \in {".kt"} -> "kotlin"
       [] ext \in {".swift"} -> "swift"
       [] ext \in {".html", ".htm"} -> "html"
       [] ext \in {".css", ".scss", ".sass", ".less"} -> "css"
       [] ext \in {".vue"} -> "vue"
       [] ext \in {".json"} -> "json"
       [] ext \in {".yaml", ".yml"} -> "yaml"
       [] ext \in {".xml"} -> "xml"
       [] ext \in {".toml"} -> "toml"
       [] ext \in {".ini"} -> "ini"
       [] ext \in {".md", ".markdown"} -> "markdown"
       [] ext \in {".txt"} -> "text"
       [] ext \in {".rst"} -> "rst"
       [] base \in {"package.json"} -> "package-config"
       [] base \in {"dockerfile"} -> "docker"
       [] base \in {".env", ".env.example"} -> "environment"
       [] base \in {"makefile"} -> "makefile"
       [] ext \in {".sh", ".bash"} -> "bash"
       [] OTHER -> "unknown"

(***************************************************************************)
(* Calls in flight.  searchAndGenerate() and ingestDocument() are async:   *)
(* each awaits its embedding request, and searchAndGenerate() awaits its   *)
(* generation request too.  Between two awaits a call runs to completion;  *)
(* at an await the other call may run.  A request record keeps the call's  *)
(* locals while it is in flight and its response once it is done.          *)
(***************************************************************************)
InFlight(req) == req.pc \notin {"idle", "done"}

\* The rows searchAndGenerate() ranks: allDocs() runs after the embedText()
\* await, so it reads the table as it is then.  First the variant that
\* reads the table as it was at the call.
searchRows_AtCall(atCall, afterEmbed) == atCall
searchRows(atCall, afterEmbed) == afterEmbed

\* The response of a search that is over.
SearchDone(req, rows, lsvc, e, g) ==
  LET r == searchAndGenerate(rows, req.esvc, lsvc, req.k, req.projectName, e, g)
  IN [pc |-> "done", ok |-> r.err = NoErr, err |-> r.err, k |-> req.k,
      projectName |-> req.projectName, rows |-> rows, e |-> e, g |-> g,
      overlap |-> req.overlap, ret |-> r]

\* What a pair of overlapping calls that both succeeded shows: the search
\* ranked the inserted row, or it did not.
Outcome(s, i) ==
  IF s.pc = "done" /\ i.pc = "done" /\ s.overlap /\ i.overlap /\ s.ok /\ i.ok
  THEN {IF \E j \in 1..Len(s.ret.topResults) : s.ret.topResults[j].id = i.id
        THEN "included" ELSE "absent"}
  ELSE {}

\* searchAndGenerate() up to its first await.
SearchStart(k, projectName) ==
  /\ phase # "off"
  /\ ~InFlight(searchReq)
  /\ LET req == [pc |-> "embedding", k |-> k, projectName |-> projectName,
                 esvc |-> embeddingService, atCall |-> docs,
                 overlap |-> InFlight(ingestReq)]
     IN searchReq' = IF getEmbeddingService(embeddingService).err # NoErr
                     THEN SearchDone(req, <<>>, llmService, [err |-> NoErr, vec |-> <<>>], NoErr)
                     ELSE req
  /\ ingestReq' = IF InFlight(ingestReq) THEN [ingestReq EXCEPT !.overlap = TRUE]
                  ELSE ingestReq
  /\ UNCHANGED <<analyticsVars, genVars, sessionVars, phase, cliServer, mmVars, embSwitchOk, envVars, docs, last, seen>>

\* searchAndGenerate() from the embedding's answer to the second await.
SearchEmbedded(e) ==
  /\ searchReq.pc = "embedding"
  /\ e \in EmbedResults(searchReq.esvc)
  /\ LET rows == searchRows(searchReq.atCall, docs)
     IN searchReq' = IF e.err # NoErr \/ getLLMService(llmService).err # NoErr
                     THEN SearchDone(searchReq, rows, llmService, e, NoErr)
                     ELSE [pc |-> "generating", k |-> searchReq.k,
                           projectName |-> searchReq.projectName,
                           esvc |-> searchReq.esvc, lsvc |-> llmService,
                           rows |-> rows, e |-> e, overlap |-> searchReq.overlap]
  /\ seen' = seen \cup Outcome(searchReq', ingestReq)
  /\ UNCHANGED <<analyticsVars, genVars, sessionVars, phase, cliServer, mmVars, embSwitchOk, envVars, docs, last, ingestReq>>

\* searchAndGenerate() from the generation's answer to its return.
SearchGenerated(g) ==
  /\ searchReq.pc = "generating"
  /\ g \in GenerateResults(searchReq.lsvc)
  /\ searchReq' = SearchDone(searchReq, searchReq.rows, searchReq.lsvc, searchReq.e, g)
  /\ seen' = seen \cup Outcome(searchReq', ingestReq)
  /\ UNCHANGED <<analyticsVars, genVars, sessionVars, phase, cliServer, mmVars, embSwitchOk, envVars, docs, last, ingestReq>>

\* ingestDocument() up to its await: the id is generated before it.
IngestStart(text, metadata, id) ==
  /\ phase # "off"
  /\ ~InFlight(ingestReq)
  /\ Len(docs) < MaxDocs
  /\ LET req == [pc |-> "embedding", text |-> text, metadata |-> metadata, id |-> id,
                 esvc |-> embeddingService, overlap |-> InFlight(searchReq)]
         r == ingestDocument(docs, embeddingService, text, metadata, id,
                             [err |-> NoErr, vec |-> <<>>])
     IN ingestReq' = IF getEmbeddingService(embeddingService).err # NoErr
                     THEN [pc |-> "done", ok |-> FALSE, err |-> r.err, id |-> id,
                           overlap |-> req.overlap, e |-> [err |-> NoErr, vec |-> <<>>],
                           beforeRead |-> FALSE, fresh |-> FALSE]
                     ELSE req
  /\ searchReq' = IF InFlight(searchReq) THEN [searchReq EXCEPT !.overlap = TRUE]
                  ELSE searchReq
  /\ UNCHANGED <<analyticsVars, genVars, sessionVars, phase, cliServer, mmVars, embSwitchOk, envVars, docs, last, seen>>

\* ingestDocument() from the embedding's answer to its return: the upsert.
IngestEmbedded(e) ==
  /\ ingestReq.pc = "embedding"
  /\ e \in EmbedResults(ingestReq.esvc)
  /\ LET r == ingestDocument(docs, ingestReq.esvc, ingestReq.text, ingestReq.metadata,
                             ingestReq.id, e)
     IN /\ docs' = r.docs
        /\ ingestReq' = [pc |-> "done", ok |-> r.err = NoErr, err |-> r.err,
                         id |-> ingestReq.id, overlap |-> ingestReq.overlap, e |-> e,
                         beforeRead |-> searchReq.pc = "embedding",
                         fresh |-> \A i \in 1..Len(docs) : docs[i].id # ingestReq.id]
  /\ seen' = seen \cup Outcome(searchReq, ingestReq')
  /\ UNCHANGED <<analyticsVars, genVars, sessionVars, phase, cliServer, mmVars, embSwitchOk, envVars, last, searchReq>>

(***************************************************************************)
(* A provider switch in flight.  setLLMProvider() is async: it runs up to  *)
(* an await that waits for the network, and other calls run until the      *)
(* answer arrives.  OllamaService.initialize() and                         *)
(* EmbeddingService.initialize() await nothing (spawnSync blocks), so      *)
(* their callers go on before any other call runs; GeminiService           *)
(* .initialize() with a key awaits a generation request.                   *)
(***************************************************************************)
\* initializeLLM() up to its first wait for the network: the adapter is
\* assigned before its initialize() is awaited.
BeginInit(m) ==
  IF m.config.llmProvider = "gemini" /\ m.config.geminiApiKey # NoKey
  THEN [m |-> [m EXCEPT !.llmService = NewGeminiService(m.config.geminiApiKey)],
        suspended |-> TRUE]
  ELSE [m |-> initializeLLM(m), suspended |-> FALSE]

\* initializeLLM() from the answer of the key's test on.
FinishInit(m) ==
  LET e == GeminiInitialize(m.llmService.apiKey)
  IN [m EXCEPT !.llmService.initialized = (e = NoErr),
               !.llmInitOk = @ \/ e = NoErr,
               !.err = e]

\* setLLMProvider() from the moment an initializeLLM() has settled with
\* m.err: the return, or the catch block with the second initializeLLM(),
\* up to the next wait or to the end.
RECURSIVE AfterInit(_, _)
AfterInit(m, req) ==
  IF req.stage = "switch"
  THEN IF m.err = NoErr THEN [m |-> m, req |-> [req EXCEPT !.pc = "done", !.err = NoErr]]
       ELSE LET c == BeginInit(saveConfig(
                       [m EXCEPT !.config.llmProvider = req.previousProvider]))
                rollback == [req EXCEPT !.stage = "rollback", !.origErr = m.err]
            IN IF c.suspended THEN [m |-> c.m, req |-> rollback]
               ELSE AfterInit(c.m, rollback)
  ELSE [m |-> m,
        req |-> [req EXCEPT !.pc = "done",
                            !.err = IF m.err # NoErr THEN m.err ELSE req.origErr]]

\* The handler's response once the call is over.
SwitchResponse(req) ==
  IF req.pc = "done"
  THEN [op |-> "setLLMProvider", ok |-> req.err = NoErr, err |-> req.err,
        origErr |-> req.origErr, pre |-> req.pre, provider |-> req.provider,
        options |-> req.options, ollamaInstalled |-> ollamaInstalled]
  ELSE last

\* ipcMain.handle('model:set-llm-provider') up to the first wait for the
\* network, or to its end when there is none.
SwitchLLMBegin(provider, options) ==
  /\ phase # "off"
  /\ switchReq.pc # "testing"
  /\ LET req == [pc |-> "testing", stage |-> "switch", provider |-> provider,
                 options |-> options, pre |-> config,
                 previousProvider |-> config.llmProvider,
                 previousService |-> llmService, origErr |-> NoErr, err |-> NoErr]
         b == BeginInit(ApplyLLMProvider(ThisManager, provider, options))
         r == IF b.suspended THEN [m |-> b.m, req |-> req] ELSE AfterInit(b.m, req)
     IN /\ SetManager(r.m)
        /\ switchReq' = r.req
        /\ last' = SwitchResponse(r.req)
  /\ UNCHANGED <<flightVars, analyticsVars, genVars, uiVars, phase, cliServer, embSwitchOk,
                 envVars, docs>>

\* The test request of the key is answered: the rest of the call up to the
\* next wait or to its end.
SwitchLLMResume ==
  /\ switchReq.pc = "testing"
  /\ LET r == AfterInit(FinishInit(ThisManager), switchReq)
     IN /\ SetManager(r.m)
        /\ switchReq' = r.req
        /\ last' = SwitchResponse(r.req)
  /\ UNCHANGED <<flightVars, analyticsVars, genVars, uiVars, phase, cliServer, embSwitchOk,
                 envVars, docs>>

(***************************************************************************)
(* The two boundaries with the request as it is received: a body or an     *)
(* argument object is a record that may lack fields.  A response records   *)
(* whether a RAG service method was invoked and whether the request lacked *)
(* a required field.                                                       *)
(***************************************************************************)
DefaultK == 5

Has(body, field) == field \in DOMAIN body

\* !body.query, !body.projectName: the field is missing or the empty string.
NoString(body, field) == ~Has(body, field) \/ body[field] = ""

\* !body.text
NoText(body) == ~Has(body, "text") \/ body.text = <<>>

KOf(body) == IF Has(body, "k") THEN body.k ELSE DefaultK
ProjectNameOf(body) == IF Has(body, "projectName") THEN body.projectName ELSE NoProject

ErrQueryRequired == "Query is required"
ErrTextRequired == "Text is required"
ErrInvalidCommit == "Invalid commit data structure. Expected: {projectName, metadata, files}"
ErrFilesNotArray == "Files must be an array"
ErrBindUndefined == "SQLite3 can only bind numbers, strings, bigints, buffers, and null"

HttpResponse(route, status, err, invoked, lacks, data) ==
  [op |-> "http", route |-> route, status |-> status, ok |-> err = NoErr, err |-> err,
   invoked |-> invoked, lacks |-> lacks, ret |-> data]

IpcResponse(channel, err, invoked, lacks, data) ==
  [op |-> "ipc", route |-> channel, ok |-> err = NoErr, err |-> err,
   invoked |-> invoked, lacks |-> lacks, ret |-> data]

\* The commit a valid body carries: files is a JSON array.
CommitOf(body) ==
  [projectName |-> body.projectName, metadata |-> body.metadata,
   files |-> body.files.items]

\* ingestDocument(text, metadata) with the text as received: without a text
\* the embedding is requested for "undefined\n..." and the insert throws,
\* the driver refusing to bind undefined.
ingestReceived(rows, svc, body, id, e) ==
  IF Has(body, "text") THEN ingestDocument(rows, svc, body.text, body.metadata, id, e)
  ELSE LET r == ingestDocument(rows, svc, <<>>, body.metadata, id, e)
       IN [docs |-> rows, err |-> IF r.err # NoErr THEN r.err ELSE ErrBindUndefined,
           id |-> id]

\* app.post('/ingest-commit')
HttpIngestCommit(body, ids, es) ==
  /\ cliServer
  /\ IF NoString(body, "projectName") \/ ~Has(body, "files")
     THEN /\ last' = HttpResponse("/ingest-commit", 400, ErrInvalidCommit, FALSE, TRUE, <<>>)
          /\ docs' = docs
     ELSE IF ~body.files.isArray
     THEN /\ last' = HttpResponse("/ingest-commit", 400, ErrFilesNotArray, FALSE, TRUE, <<>>)
          /\ docs' = docs
     ELSE /\ Len(ids) = Len(body.files.items)
          /\ \A i \in 1..Len(ids) : es[i] \in EmbedResults(embeddingService)
          /\ LET r == ingestCommit(docs, embeddingService, CommitOf(body), ids, es)
             IN /\ Len(r.docs) <= MaxDocs
                /\ docs' = r.docs
                /\ last' = HttpResponse("/ingest-commit", 200, NoErr, TRUE, FALSE, r.summary)
  /\ UNCHANGED <<extVars, phase, cliServer, mmVars, embSwitchOk, envVars>>

\* app.get('/projects')
HttpProjects ==
  /\ cliServer
  /\ last' = HttpResponse("/projects", 200, NoErr, TRUE, FALSE, getProjects(docs))
  /\ UNCHANGED <<extVars, phase, cliServer, mmVars, embSwitchOk, envVars, docs>>

\* app.post('/search')
HttpSearch(body, e, g) ==
  /\ cliServer
  /\ e \in EmbedResults(embeddingService)
  /\ g \in GenerateResults(llmService)
  /\ LET r == searchAndGenerate(docs, embeddingService, llmService, KOf(body),
                                ProjectNameOf(body), e, g)
     IN last' = IF NoString(body, "query")
                THEN HttpResponse("/search", 400, ErrQueryRequired, FALSE, TRUE, <<>>)
                ELSE IF r.err # NoErr
                THEN HttpResponse("/search", 500, r.err, TRUE, FALSE, <<>>)
                ELSE HttpResponse("/search", 200, NoErr, TRUE, FALSE, r)
  /\ UNCHANGED <<extVars, phase, cliServer, mmVars, embSwitchOk, envVars, docs>>

\* app.post('/ingest')
HttpIngest(body, id, e) ==
  /\ cliServer
  /\ e \in EmbedResults(embeddingService)
  /\ LET r == ingestDocument(docs, embeddingService, body.text, body.metadata, id, e)
     IN IF NoText(body)
        THEN /\ last' = HttpResponse("/ingest", 400, ErrTextRequired, FALSE, TRUE, <<>>)
             /\ docs' = docs
        ELSE /\ Len(r.docs) <= MaxDocs
             /\ docs' = r.docs
             /\ last' = IF r.err # NoErr
                        THEN HttpResponse("/ingest", 500, r.err, TRUE, FALSE, <<>>)
                        ELSE HttpResponse("/ingest", 200, NoErr, TRUE, FALSE,
                                          [id |-> r.id, status |-> "ingested"])
  /\ UNCHANGED <<extVars, phase, cliServer, mmVars, embSwitchOk, envVars>>

\* app.post('/query'): no validation, and the catch answers with res.json.
HttpQuery(body, e, g) ==
  /\ cliServer
  /\ e \in EmbedResults(embeddingService)
  /\ g \in GenerateResults(llmService)
  /\ LET r == searchAndGenerate(docs, embeddingService, llmService, KOf(body),
                                NoProject, e, g)
     IN last' = IF r.err # NoErr
                THEN HttpResponse("/query", 200, r.err, TRUE, ~Has(body, "query"), <<>>)
                ELSE HttpResponse("/query", 200, NoErr, TRUE, ~Has(body, "query"), r)
  /\ UNCHANGED <<extVars, phase, cliServer, mmVars, embSwitchOk, envVars, docs>>

\* ipcMain.handle('rag:ingest-commit') with its validation.
IpcIngestCommit(body, ids, es) ==
  /\ phase # "off"
  /\ IF NoString(body, "projectName") \/ ~Has(body, "files")
     THEN /\ last' = IpcResponse("rag:ingest-commit", ErrInvalidCommit, FALSE, TRUE, <<>>)
          /\ docs' = docs
     ELSE IF ~body.files.isArray
     THEN /\ last' = IpcResponse("rag:ingest-commit", ErrFilesNotArray, FALSE, TRUE, <<>>)
          /\ docs' = docs
     ELSE /\ Len(ids) = Len(body.files.items)
          /\ \A i \in 1..Len(ids) : es[i] \in EmbedResults(embeddingService)
          /\ LET r == ingestCommit(docs, embeddingService, CommitOf(body), ids, es)
             IN /\ Len(r.docs) <= MaxDocs
                /\ docs' = r.docs
                /\ last' = IpcResponse("rag:ingest-commit", NoErr, TRUE, FALSE, r.summary)
  /\ UNCHANGED <<extVars, phase, cliServer, mmVars, embSwitchOk, envVars>>

\* ipcMain.handle('rag:search') with the argument object as received.
IpcSearch(args, e, g) ==
  /\ phase # "off"
  /\ e \in EmbedResults(embeddingService)
  /\ g \in GenerateResults(llmService)
  /\ LET r == searchAndGenerate(docs, embeddingService, llmService, KOf(args),
                                ProjectNameOf(args), e, g)
     IN last' = IpcResponse("rag:search", r.err, TRUE, ~Has(args, "query"),
                            IF r.err = NoErr THEN r ELSE <<>>)
  /\ UNCHANGED <<extVars, phase, cliServer, mmVars, embSwitchOk, envVars, docs>>

\* ipcMain.handle('rag:query') with the argument object as received.
IpcQuery(args, e, g) ==
  /\ phase # "off"
  /\ e \in EmbedResults(embeddingService)
  /\ g \in GenerateResults(llmService)
  /\ LET r == searchAndGenerate(docs, embeddingService, llmService, KOf(args),
                                NoProject, e, g)
     IN last' = IpcResponse("rag:query", r.err, TRUE, ~Has(args, "query"),
                            IF r.err = NoErr THEN r ELSE <<>>)
  /\ UNCHANGED <<extVars, phase, cliServer, mmVars, embSwitchOk, envVars, docs>>

\* ipcMain.handle('rag:ingest') with the argument object as received.
IpcIngest(args, id, e) ==
  /\ phase # "off"
  /\ e \in EmbedResults(embeddingService)
  /\ LET r == ingestReceived(docs, embeddingService, args, id, e)
     IN /\ Len(r.docs) <= MaxDocs
        /\ docs' = r.docs
        /\ last' = IpcResponse("rag:ingest", r.err, TRUE, ~Has(args, "text"),
                               IF r.err = NoErr THEN [id |-> r.id, status |-> "ingested"]
                               ELSE <<>>)
  /\ UNCHANGED <<extVars, phase, cliServer, mmVars, embSwitchOk, envVars>>

\* ragService.getFileType(path), as ingestCommit calls it for every file.
GetFileType(filePath) ==
  /\ phase # "off"
  /\ last' = [op |-> "getFileType", ok |-> TRUE, err |-> NoErr, filePath |-> filePath,
              ret |-> getFileType(filePath)]
  /\ UNCHANGED <<extVars, phase, cliServer, mmVars, embSwitchOk, envVars, docs>>

(***************************************************************************)
(* The preload bridge: window.electronAPI, and the channels the main       *)
(* process handles.                                                        *)
(***************************************************************************)
\* contextBridge.exposeInMainWorld('electronAPI', {...}): the channel each
\* function invokes.
electronAPI ==
  [searchRAG |-> "rag:search",
   getProjects |-> "rag:get-projects",
   ingestCommit |-> "rag:ingest-commit",
   ingestDocument |-> "rag:ingest",
   queryRAG |-> "rag:query",
   bulkIngest |-> "rag:bulk-ingest",
   getModelConfig |-> "model:get-config",
   setLLMProvider |-> "model:set-llm-provider",
   setEmbeddingProvider |-> "model:set-embedding-provider",
   checkOllama |-> "model:check-ollama",
   installOllamaModel |-> "model:install-ollama-model",
   listModels |-> "ollama:list-models",
   pullOllamaModel |-> "ollama:pull-model",
   listOllamaModelsDetailed |-> "ollama:list-models-detailed",
   debugDocs |-> "rag:debug-docs"]

\* The channels of the ipcMain.handle() calls of the main process.
ipcHandlers ==
  {"rag:query", "rag:bulk-ingest", "model:get-config", "model:set-llm-provider",
   "model:set-embedding-provider", "model:check-ollama", "model:install-ollama-model",
   "ollama:pull-model", "ollama:list-models-detailed", "rag:ingest-commit",
   "rag:get-projects", "rag:search", "rag:ingest", "rag:ingest-demo",
   "rag:get-model-manager"}

\* The handlers whose parameter list destructures the payload.
Destructuring ==
  {"rag:query", "rag:bulk-ingest", "model:set-llm-provider",
   "model:set-embedding-provider", "model:install-ollama-model", "ollama:pull-model",
   "rag:search", "rag:ingest"}

\* The functions that pass their argument on as the payload; the others
\* build an object or send nothing.
PassesArgument == {"searchRAG", "ingestCommit"}

ErrNoHandler == "No handler registered"
ErrDestructure == "Cannot destructure property of undefined"

\* ipcRenderer.invoke(channel, payload) in the main process: the promise is
\* rejected when the channel has no handler or when the handler throws, and
\* is resolved with the handler's {success, data, error} otherwise.
invoke(channel, payload) ==
  IF channel \notin ipcHandlers THEN [settled |-> "rejected", err |-> ErrNoHandler]
  ELSE IF channel \in Destructuring /\ payload = "undefined"
  THEN [settled |-> "rejected", err |-> ErrDestructure]
  ELSE [settled |-> "resolved", err |-> NoErr]

\* The UI calls window.electronAPI[fn](arg), arg being an object or undefined.
BridgeCall(fn, arg) ==
  /\ phase # "off"
  /\ LET channel == electronAPI[fn]
         r == invoke(channel, IF fn \in PassesArgument THEN arg ELSE "object")
     IN last' = [op |-> "bridge", ok |-> r.settled = "resolved", err |-> r.err,
                 fn |-> fn, arg |-> arg, channels |-> {channel},
                 settled |-> r.settled]
  /\ UNCHANGED <<extVars, phase, cliServer, mmVars, embSwitchOk, envVars, docs>>

(***************************************************************************)
(* The analytics service.  Dates are in hours and today is in days; of a   *)
(* row the columns kept are the keys, the dates and the columns computed   *)
(* from line counts.                                                       *)
(***************************************************************************)
(***************************************************************************)
(* The code metrics.  The content of a file is a string; the regular       *)
(* expressions of calculateCodeMetrics are matched character by character. *)
(***************************************************************************)
\* content.charAt(i - 1): "" outside the string.
At(s, i) == IF i \in 1..Len(s) THEN SubSeq(s, i, i) ELSE ""

IsDigit(c) == c \in {"0", "1", "2", "3", "4", "5", "6", "7", "8", "9"}

\* The class \w.
IsWordChar(c) ==
  \/ IsDigit(c)
  \/ c \in {"a", "b", "c", "d", "e", "f", "g", "h", "i", "j", "k", "l", "m", "n", "o",
            "p", "q", "r", "s", "t", "u", "v", "w", "x", "y", "z", "_",
            "A", "B", "C", "D", "E", "F", "G", "H", "I", "J", "K", "L", "M", "N", "O",
            "P", "Q", "R", "S", "T", "U", "V", "W", "X", "Y", "Z"}

NotCloseParen(c) == c # ")"

\* The assertion \b before the character at i.
Boundary(s, i) == IsWordChar(At(s, i - 1)) # IsWordChar(At(s, i))

\* The end of a greedy X* that starts at i: the first position from i on
\* whose character is not in the class (Len(s) + 1 at the end of the string).
Skip(s, i, InClass(_)) ==
  CHOOSE j \in i..(Len(s) + 1) :
    /\ \A k \in i..(j - 1) : InClass(At(s, k))
    /\ j = Len(s) + 1 \/ ~InClass(At(s, j))

\* The positions where the text occurs in s.
Occurrences(s, text) ==
  {i \in 1..(Len(s) - Len(text) + 1) : SubSeq(s, i, i + Len(text) - 1) = text}

\* (content.match(new RegExp(`\\b${keyword}\\b`, 'g')) || []).length with
\* every keyword taken literally.
MatchCount_Literal(s, keyword) ==
  Cardinality({i \in Occurrences(s, keyword) :
                 Boundary(s, i) /\ Boundary(s, i + Len(keyword))})

\* (content.match(new RegExp(`\\b${keyword}\\b`, 'g')) || []).length: the
\* keyword is placed in the pattern unescaped.  /\b||\b/g is the alternation
\* of \b, of the empty pattern and of \b, which matches the empty string at
\* every index 0..content.length; the other keywords hold no metacharacter
\* and match where they stand between two word boundaries.
MatchCount(s, keyword) ==
  IF keyword = "||" THEN Len(s) + 1
  ELSE Cardinality({i \in Occurrences(s, keyword) :
                      Boundary(s, i) /\ Boundary(s, i + Len(keyword))})

complexityKeywords == <<"if", "else", "for", "while", "switch", "case", "catch", "&&", "||">>

RECURSIVE SumMatches(_, _)
SumMatches(s, keywords) ==
  IF keywords = <<>> THEN 0
  ELSE MatchCount(s, Head(keywords)) + SumMatches(s, Tail(keywords))

\* complexityKeywords.reduce((sum, keyword) => sum + matches, 1)
cyclomaticComplexity(content) == 1 + SumMatches(content, complexityKeywords)

\* The last index of the match of
\* /function\s+\w+\s*\([^)]*\)\s*\{[\s\S]*?\}/ that starts at i, 0 when there
\* is none.
FunctionEnd(s, i) ==
  LET name == Skip(s, i + 8, IsSpace)
      afterName == Skip(s, name, IsWordChar)
      open == Skip(s, afterName, IsSpace)
      close == Skip(s, open + 1, NotCloseParen)
      brace == Skip(s, close + 1, IsSpace)
      ends == {j \in (brace + 1)..Len(s) : At(s, j) = "}"}
  IN IF /\ SubSeq(s, i, i + 7) = "function"
        /\ name > i + 8
        /\ afterName > name
        /\ At(s, open) = "("
        /\ At(s, close) = ")"
        /\ At(s, brace) = "{"
        /\ ends # {}
     THEN CHOOSE j \in ends : \A k \in ends : j <= k
     ELSE 0

\* content.match(/function.../g) || []: the matches from i on, from left to
\* right, each search starting after the previous match.
RECURSIVE FunctionMatches(_, _)
FunctionMatches(s, i) ==
  IF i + 7 > Len(s) THEN <<>>
  ELSE LET end == FunctionEnd(s, i)
       IN IF end # 0 THEN <<SubSeq(s, i, end)>> \o FunctionMatches(s, end + 1)
          ELSE FunctionMatches(s, i + 1)

\* func.split('\n').length
SplitLength(s) == 1 + Cardinality(Occurrences(s, "\n"))

\* The matches of /\b\d{3,}\b/g: the runs of three or more digits between
\* two word boundaries, by their first index.
MagicNumbers(s) ==
  {i \in 1..Len(s) :
     /\ IsDigit(At(s, i))
     /\ Boundary(s, i)
     /\ Skip(s, i, IsDigit) - i >= 3
     /\ Boundary(s, Skip(s, i, IsDigit))}

\* detectCodeSmells with one 'long_function' for all the long functions.
detectCodeSmells_Categories(content) ==
  LET functions == FunctionMatches(content, 1)
      long == {i \in 1..Len(functions) : SplitLength(functions[i]) > 20}
  IN (IF long # {} THEN 1 ELSE 0)
       + (IF Cardinality(MagicNumbers(content)) > 5 THEN 1 ELSE 0)

\* AnalyticsService.detectCodeSmells: smells.length after one push for every
\* function of more than 20 lines and one push for the magic numbers.
detectCodeSmells(content) ==
  LET functions == FunctionMatches(content, 1)
      long == {i \in 1..Len(functions) : SplitLength(functions[i]) > 20}
  IN Cardinality(long) + (IF Cardinality(MagicNumbers(content)) > 5 THEN 1 ELSE 0)

\* The vulnerability patterns of the form /text\s*c/.
Followed(s, text, c) ==
  \E i \in Occurrences(s, text) : At(s, Skip(s, i + Len(text), IsSpace)) = c

\* AnalyticsService.calculateSecurityScore
calculateSecurityScore(content) ==
  LET score == 100
                 - (IF Followed(content, "eval", "(") THEN 20 ELSE 0)
                 - (IF Followed(content, "innerHTML", "=") THEN 15 ELSE 0)
                 - (IF Occurrences(content, "document.write") # {} THEN 15 ELSE 0)
                 - (IF Followed(content, "sql", "+") THEN 10 ELSE 0)
                 - (IF Followed(content, "password", "=") THEN 5 ELSE 0)
  IN IF score < 0 THEN 0 ELSE score

\* The first index of every element of content.split('\n').
LineStarts(s) == {1} \cup {i + 1 : i \in Occurrences(s, "\n")}

IsBlank(c) == c \in {" ", "\t", "\r"}

\* line.trim().startsWith('//') || ... '/*' || ... '*' || ... '#' for the
\* line that starts at p.
IsCommentLine(s, p) ==
  LET q == Skip(s, p, IsBlank)
  IN \/ At(s, q) \in {"*", "#"}
     \/ At(s, q) = "/" /\ At(s, q + 1) \in {"/", "*"}

\* Math.log(n) in thousandths, rounded, for n in 1..600.
LnTable ==
  <<
   0, 693, 1099, 1386, 1609, 1792, 1946, 2079, 2197, 2303, 2398, 2485, 2565, 2639,
   2708, 2773, 2833, 2890, 2944, 2996, 3045, 3091, 3135, 3178, 3219, 3258, 3296, 3332,
   3367, 3401, 3434, 3466, 3497, 3526, 3555, 3584, 3611, 3638, 3664, 3689, 3714, 3738,
   3761, 3784, 3807, 3829, 3850, 3871, 3892, 3912, 3932, 3951, 3970, 3989, 4007, 4025,
   4043, 4060, 4078, 4094, 4111, 4127, 4143, 4159, 4174, 4190, 4205, 4220, 4234, 4248,
   4263, 4277, 4290, 4304, 4317, 4331, 4344, 4357, 4369, 4382, 4394, 4407, 4419, 4431,
   4443, 4454, 4466, 4477, 4489, 4500, 4511, 4522, 4533, 4543, 4554, 4564, 4575, 4585,
   4595, 4605, 4615, 4625, 4635, 4644, 4654, 4663, 4673, 4682, 4691, 4700, 4710, 4718,
   4727, 4736, 4745, 4754, 4762, 4771, 4779, 4787, 4796, 4804, 4812, 4820, 4828, 4836,
   4844, 4852, 4860, 4868, 4875, 4883, 4890, 4898, 4905, 4913, 4920, 4927, 4934, 4942,
   4949, 4956, 4963, 4970, 4977, 4984, 4990, 4997, 5004, 5011, 5017, 5024, 5030, 5037,
   5043, 5050, 5056, 5063, 5069, 5075, 5081, 5088, 5094, 5100, 5106, 5112, 5118, 5124,
   5130, 5136, 5142, 5147, 5153, 5159, 5165, 5170, 5176, 5182, 5187, 5193, 5198, 5204,
   5209, 5215, 5220, 5226, 5231, 5236, 5242, 5247, 5252, 5257, 5263, 5268, 5273, 5278,
   5283, 5288, 5293, 5298, 5303, 5308, 5313, 5318, 5323, 5328, 5333, 5338, 5342, 5347,
   5352, 5357, 5361, 5366, 5371, 5375, 5380, 5384, 5389, 5394, 5398, 5403, 5407, 5412,
   5416, 5421, 5425, 5429, 5434, 5438, 5442, 5447, 5451, 5455, 5460, 5464, 5468, 5472,
   5476, 5481, 5485, 5489, 5493, 5497, 5501, 5505, 5509, 5513, 5517, 5521, 5525, 5529,
   5533, 5537, 5541, 5545, 5549, 5553, 5557, 5561, 5565, 5568, 5572, 5576, 5580, 5583,
   5587, 5591, 5595, 5598, 5602, 5606, 5609, 5613, 5617, 5620, 5624, 5628, 5631, 5635,
   5638, 5642, 5645, 5649, 5652, 5656, 5659, 5663, 5666, 5670, 5673, 5677, 5680, 5684,
   5687, 5690, 5694, 5697, 5700, 5704, 5707, 5710, 5714, 5717, 5720, 5724, 5727, 5730,
   5733, 5737, 5740, 5743, 5746, 5749, 5753, 5756, 5759, 5762, 5765, 5768, 5771, 5775,
   5778, 5781, 5784, 5787, 5790, 5793, 5796, 5799, 5802, 5805, 5808, 5811, 5814, 5817,
   5820, 5823, 5826, 5829, 5832, 5835, 5838, 5841, 5844, 5846, 5849, 5852, 5855, 5858,
   5861, 5864, 5866, 5869, 5872, 5875, 5878, 5881, 5883, 5886, 5889, 5892, 5894, 5897,
   5900, 5903, 5905, 5908, 5911, 5914, 5916, 5919, 5922, 5924, 5927, 5930, 5932, 5935,
   5938, 5940, 5943, 5945, 5948, 5951, 5953, 5956, 5958, 5961, 5964, 5966, 5969, 5971,
   5974, 5976, 5979, 5981, 5984, 5986, 5989, 5991, 5994, 5996, 5999, 6001, 6004, 6006,
   6009, 6011, 6014, 6016, 6019, 6021, 6023, 6026, 6028, 6031, 6033, 6035, 6038, 6040,
   6043, 6045, 6047, 6050, 6052, 6054, 6057, 6059, 6061, 6064, 6066, 6068, 6071, 6073,
   6075, 6078, 6080, 6082, 6084, 6087, 6089, 6091, 6094, 6096, 6098, 6100, 6103, 6105,
   6107, 6109, 6111, 6114, 6116, 6118, 6120, 6122, 6125, 6127, 6129, 6131, 6133, 6136,
   6138, 6140, 6142, 6144, 6146, 6148, 6151, 6153, 6155, 6157, 6159, 6161, 6163, 6165,
   6168, 6170, 6172, 6174, 6176, 6178, 6180, 6182, 6184, 6186, 6188, 6190, 6192, 6194,
   6196, 6198, 6201, 6203, 6205, 6207, 6209, 6211, 6213, 6215, 6217, 6219, 6221, 6223,
   6225, 6227, 6229, 6230, 6232, 6234, 6236, 6238, 6240, 6242, 6244, 6246, 6248, 6250,
   6252, 6254, 6256, 6258, 6260, 6261, 6263, 6265, 6267, 6269, 6271, 6273, 6275, 6277,
   6279, 6280, 6282, 6284, 6286, 6288, 6290, 6292, 6293, 6295, 6297, 6299, 6301, 6303,
   6304, 6306, 6308, 6310, 6312, 6314, 6315, 6317, 6319, 6321, 6323, 6324, 6326, 6328,
   6330, 6332, 6333, 6335, 6337, 6339, 6340, 6342, 6344, 6346, 6347, 6349, 6351, 6353,
   6354, 6356, 6358, 6360, 6361, 6363, 6365, 6366, 6368, 6370, 6372, 6373, 6375, 6377,
   6378, 6380, 6382, 6384, 6385, 6387, 6389, 6390, 6392, 6394, 6395, 6397
  >>

Ln(n) == LnTable[n]

\* Math.max(0, 171 - 5.2 * Math.log(cyclomaticComplexity)
\*   - 0.23 * Math.log(linesOfCode) - 16.2 * Math.log(commentRatio + 0.1)),
\* in thousandths; commentRatio + 0.1 is
\* (10 * commentLines + linesOfCode) / (10 * linesOfCode).
maintainabilityIndex(complexity, linesOfCode, commentLines) ==
  LET index == 171000
                 - (52 * Ln(complexity)) \div 10
                 - (23 * Ln(linesOfCode)) \div 100
                 - (162 * (Ln(10 * commentLines + linesOfCode) - Ln(10 * linesOfCode)))
                     \div 10
  IN IF index < 0 THEN 0 ELSE index

\* AnalyticsService.calculateCodeMetrics: the metrics the health score and
\* the smell count are made of; maintainabilityIndex is in thousandths.
calculateCodeMetrics(content) ==
  LET linesOfCode == Cardinality(LineStarts(content))
      commentLines == Cardinality({p \in LineStarts(content) : IsCommentLine(content, p)})
      complexity == cyclomaticComplexity(content)
  IN [linesOfCode |-> linesOfCode,
      commentLines |-> commentLines,
      cyclomaticComplexity |-> complexity,
      maintainabilityIndex |-> maintainabilityIndex(complexity, linesOfCode, commentLines),
      codeSmellsCount |-> detectCodeSmells(content),
      securityScore |-> calculateSecurityScore(content)]

\* analyticsService.calculateCodeMetrics(content, metadata)
CalculateCodeMetrics(content) ==
  /\ last' = [op |-> "calculateCodeMetrics", ok |-> TRUE, err |-> NoErr,
              content |-> content, ret |-> calculateCodeMetrics(content)]
  /\ UNCHANGED <<coreVars, extVars>>

HealthDays == 30

\* content.split('\n').length
LinesOf(content) == 1 + Cardinality(Occurrences(content, "\n"))

\* AnalyticsService.analyzeCodeHealth: the INSERT INTO code_metrics.
analyzeCodeHealth(rows, documentId, content, metadata) ==
  LET metrics == calculateCodeMetrics(content)
  IN Append(rows, [document_id |-> documentId, project_name |-> metadata.project_name,
                   file_path |-> metadata.file_path, commit_date |-> metadata.commit_date,
                   cyclomatic_complexity |-> metrics.cyclomaticComplexity,
                   lines_of_code |-> LinesOf(content),
                   maintainability_index |-> metrics.maintainabilityIndex,
                   security_score |-> metrics.securityScore])

RECURSIVE SumLines(_)
SumLines(rows) ==
  IF rows = <<>> THEN 0 ELSE Head(rows).lines_of_code + SumLines(Tail(rows))

\* The rows the WHERE clause of getProjectHealthMetrics selects.
InWindow(rows, projectName, day) ==
  SelectSeq(rows, LAMBDA r : /\ r.project_name = projectName
                             /\ r.commit_date >= (day - HealthDays) * 24)

RECURSIVE SumColumn(_, _)
SumColumn(rows, column) ==
  IF rows = <<>> THEN 0 ELSE Head(rows)[column] + SumColumn(Tail(rows), column)

\* AVG(column) in thousandths (unit is what 1 of the column is worth in
\* thousandths): <<>> for NULL, the average of no row.
Avg(rows, column, unit) ==
  IF rows = <<>> THEN <<>> ELSE <<(unit * SumColumn(rows, column)) \div Len(rows)>>

\* AnalyticsService.getProjectHealthMetrics: the averages, COUNT(*) and
\* SUM(lines_of_code).
getProjectHealthMetrics(rows, projectName, day) ==
  LET selected == InWindow(rows, projectName, day)
  IN [avg_maintainability |-> Avg(selected, "maintainability_index", 1),
      avg_complexity |-> Avg(selected, "cyclomatic_complexity", 1000),
      avg_security |-> Avg(selected, "security_score", 1000),
      total_files |-> Len(selected),
      total_lines |-> SumLines(selected)]

\* value || 0 for an average: 0 for NULL.
OrZero(average) == IF average = <<>> THEN 0 ELSE average[1]

\* The overallHealthScore of generateProjectAnalytics, in thousandths.
overallHealthScore(healthMetrics) ==
  LET complexity == 100000 - 2 * OrZero(healthMetrics.avg_complexity)
  IN (4 * OrZero(healthMetrics.avg_maintainability)
        + 3 * (IF complexity < 0 THEN 0 ELSE complexity)
        + 3 * OrZero(healthMetrics.avg_security)) \div 10

\* INSERT without the UNIQUE(project_name, analysis_date) constraint.
InsertOrReplace_Append(rows, row) == Append(rows, row)

\* INSERT OR REPLACE under UNIQUE(project_name, analysis_date): the row of
\* the same project and day is deleted, then the new row is inserted.
InsertOrReplace(rows, row) ==
  Append(SelectSeq(rows, LAMBDA r : ~(/\ r.project_name = row.project_name
                                      /\ r.analysis_date = row.analysis_date)),
         row)

\* The row generateProjectAnalytics computes.
AnalyticsRow(metrics, projectName, day) ==
  LET healthMetrics == getProjectHealthMetrics(metrics, projectName, day)
  IN [project_name |-> projectName, analysis_date |-> day, performance_score |-> 85,
      overall_health_score |-> overallHealthScore(healthMetrics),
      total_files |-> healthMetrics.total_files,
      total_lines |-> healthMetrics.total_lines,
      total_functions |-> healthMetrics.total_lines \div 20,
      total_classes |-> healthMetrics.total_lines \div 100]

\* AnalyticsService.generateProjectAnalytics
generateProjectAnalytics(metrics, analytics, projectName, day) ==
  InsertOrReplace(analytics, AnalyticsRow(metrics, projectName, day))

\* time_since_last_change of a row: NULL, or a number of hours.
NoHours == <<>>
Hours(n) == <<n>>

RECURSIVE MaxOf(_)
MaxOf(S) ==
  LET x == CHOOSE y \in S : TRUE
  IN IF S = {x} THEN x
     ELSE LET m == MaxOf(S \ {x}) IN IF x > m THEN x ELSE m

\* calculateTimeSinceLastChange looking at the rows of every file.
calculateTimeSinceLastChange_AnyFile(rows, projectName, filePath, currentDate) ==
  LET dates == {rows[i].commit_date : i \in {j \in 1..Len(rows) :
                                         rows[j].project_name = projectName}}
  IN IF dates = {} THEN NoHours ELSE Hours(currentDate - MaxOf(dates))

\* AnalyticsService.calculateTimeSinceLastChange: current minus
\* MAX(commit_date) of the rows of the project and the file.
calculateTimeSinceLastChange(rows, projectName, filePath, currentDate) ==
  LET dates == {rows[i].commit_date : i \in {j \in 1..Len(rows) :
                                         /\ rows[j].project_name = projectName
                                         /\ rows[j].file_path = filePath}}
  IN IF dates = {} THEN NoHours ELSE Hours(currentDate - MaxOf(dates))

\* AnalyticsService.trackCodeEvolution: one INSERT per file, in order.
RECURSIVE trackCodeEvolution(_, _, _)
trackCodeEvolution(rows, commitData, i) ==
  IF i > Len(commitData.files) THEN rows
  ELSE LET f == commitData.files[i]
       IN trackCodeEvolution(
            Append(rows,
                   [project_name |-> commitData.projectName, file_path |-> f.path,
                    commit_date |-> commitData.metadata.date,
                    lines_added |-> LinesOf(f.content),
                    files_changed |-> Len(commitData.files),
                    time_since_last_change |->
                      calculateTimeSinceLastChange(rows, commitData.projectName, f.path,
                                                   commitData.metadata.date)]),
            commitData, i + 1)

\* analyticsService.analyzeCodeHealth(documentId, content, metadata)
AnalyzeCodeHealth(documentId, content, metadata) ==
  /\ Len(codeMetrics) < MaxMetrics
  /\ codeMetrics' = analyzeCodeHealth(codeMetrics, documentId, content, metadata)
  /\ last' = [op |-> "analyzeCodeHealth", ok |-> TRUE, err |-> NoErr,
              documentId |-> documentId]
  /\ UNCHANGED <<coreVars, sessionVars, flightVars, genVars, codeEvolution, projectAnalytics, today>>

\* analyticsService.generateProjectAnalytics(projectName)
GenerateProjectAnalytics(projectName) ==
  /\ projectAnalytics' = generateProjectAnalytics(codeMetrics, projectAnalytics,
                                                  projectName, today)
  /\ last' = [op |-> "generateProjectAnalytics", ok |-> TRUE, err |-> NoErr,
              projectName |-> projectName, day |-> today,
              row |-> AnalyticsRow(codeMetrics, projectName, today),
              prior |-> SelectSeq(projectAnalytics,
                                  LAMBDA r : /\ r.project_name = projectName
                                             /\ r.analysis_date = today)]
  /\ UNCHANGED <<coreVars, sessionVars, flightVars, genVars, codeMetrics, codeEvolution, today>>

\* analyticsService.trackCodeEvolution(commitData)
TrackCodeEvolution(commitData) ==
  /\ Len(codeEvolution) + Len(commitData.files) <= MaxEvolution
  /\ codeEvolution' = trackCodeEvolution(codeEvolution, commitData, 1)
  /\ last' = [op |-> "trackCodeEvolution", ok |-> TRUE, err |-> NoErr,
              commitData |-> commitData]
  /\ UNCHANGED <<coreVars, sessionVars, flightVars, genVars, codeMetrics, projectAnalytics, today>>

\* Midnight passes.
AdvanceDay ==
  /\ today < MaxDay
  /\ today' = today + 1
  /\ UNCHANGED <<coreVars, sessionVars, flightVars, genVars, codeMetrics, codeEvolution, projectAnalytics, last>>

(***************************************************************************)
(* The generator's run: main() of the generator script.                    *)
(***************************************************************************)
\* loadConfig(repoRoot)
loadCliConfig(f) == IF f.exists THEN f.data ELSE DefaultCliConfig

\* The inodes in use: named, or open in a process other than p.
InUse(p) ==
  {genFiles.target, genFiles.tmp} \cup {gen[q].fd : q \in Procs \ {p}}

\* write(fd, chunk) at offset off: the file grows, with a hole if needed.
WriteAt(content, off, chunk) ==
  [i \in 1..(IF off + 1 > Len(content) THEN off + 1 ELSE Len(content)) |->
     IF i = off + 1 THEN chunk
     ELSE IF i <= Len(content) THEN content[i] ELSE <<0, 0>>]

PushOutcomes ==
  {"success", "successNoData", "logicalFailure", "refused", "networkError", "timeout",
   "unparseable"}

\* ingestToBackend resolving true for every response that parses.
ingestToBackend_AnyParsedResponse(cfg, outcome) ==
  cfg.electronUrl /\ outcome \in {"success", "successNoData", "logicalFailure"}

\* ingestToBackend(payload, config): true only for a response with a truthy
\* success and with data.
ingestToBackend(cfg, outcome) ==
  cfg.electronUrl /\ outcome = "success"

\* main() up to the open of writeFileSync(tmp): loadConfig, scanProject,
\* open(tmp, O_WRONLY | O_CREAT | O_TRUNC).
GenOpen(p) ==
  /\ gen[p].pc \in {"idle", "exit", "failed", "killed"}
  /\ runs < MaxRuns
  /\ runs' = runs + 1
  /\ LET inode == IF genFiles.tmp # NoInode THEN genFiles.tmp
                  ELSE CHOOSE i \in Inodes \ InUse(p) :
                         \A j \in Inodes \ InUse(p) : i <= j
     IN /\ genFiles' = [genFiles EXCEPT !.tmp = inode]
        /\ inodeData' = [inodeData EXCEPT ![inode] = <<>>]
        /\ gen' = [gen EXCEPT ![p] = [pc |-> "writing", fd |-> inode, off |-> 0,
                                      run |-> runs + 1,
                                      config |-> loadCliConfig(cliConfig),
                                      wrote |-> FALSE, pushed |-> "none"]]
  /\ UNCHANGED <<coreVars, sessionVars, flightVars, analyticsVars, last, cliConfig>>

\* One write() of writeFileSync(tmp, data); after the last one the file is
\* closed.
GenWrite(p) ==
  /\ gen[p].pc = "writing"
  /\ inodeData' = [inodeData EXCEPT ![gen[p].fd] =
                     WriteAt(@, gen[p].off, <<gen[p].run, gen[p].off + 1>>)]
  /\ gen' = [gen EXCEPT ![p].off = @ + 1,
                        ![p].pc = IF gen[p].off + 1 = NumChunks THEN "renaming"
                                  ELSE "writing",
                        ![p].fd = IF gen[p].off + 1 = NumChunks THEN NoInode ELSE @]
  /\ UNCHANGED <<coreVars, sessionVars, flightVars, analyticsVars, last, genFiles, cliConfig, runs>>

\* fs.renameSync(tmp, filePath): ENOENT when tmp is gone, and main() ends
\* with the exception.
GenRename(p) ==
  /\ gen[p].pc = "renaming"
  /\ IF genFiles.tmp = NoInode
     THEN /\ gen' = [gen EXCEPT ![p].pc = "failed"]
          /\ genFiles' = genFiles
     ELSE /\ gen' = [gen EXCEPT ![p].pc = "written", ![p].wrote = TRUE]
          /\ genFiles' = [target |-> genFiles.tmp, tmp |-> NoInode]
  /\ UNCHANGED <<coreVars, sessionVars, flightVars, analyticsVars, last, inodeData, cliConfig, runs>>

\* main() after the snapshot is written: the push when auto-ingest is not
\* disabled, with its outcome, and saveConfig() after a success (saved tells
\* whether saveConfig could write the file).
GenPush(p, outcome, saved) ==
  /\ gen[p].pc = "written"
  /\ LET cfg == gen[p].config
         success == cfg.autoIngest /\ ingestToBackend(cfg, outcome)
     IN /\ gen' = [gen EXCEPT ![p].pc = "exit",
                              ![p].pushed = IF ~cfg.autoIngest THEN "disabled"
                                            ELSE IF ~cfg.electronUrl THEN "noUrl"
                                            ELSE outcome]
        /\ cliConfig' = IF success /\ saved
                        THEN [exists |-> TRUE,
                              data |-> [electronUrl |-> cfg.electronUrl,
                                        autoIngest |-> cfg.autoIngest,
                                        lastIngestion |-> gen[p].run,
                                        lastCommitHash |-> "h"]]
                        ELSE cliConfig
  /\ UNCHANGED <<coreVars, sessionVars, flightVars, analyticsVars, last, genFiles, inodeData, runs>>

\* The user writes .gw/config.json.
EditCliConfig(f) ==
  /\ cliConfig' = f
  /\ UNCHANGED <<coreVars, sessionVars, flightVars, analyticsVars, last, genFiles, inodeData, gen, runs>>

\* The process is killed while it writes the snapshot.
GenKill(p) ==
  /\ gen[p].pc \in {"writing", "renaming"}
  /\ gen' = [gen EXCEPT ![p].pc = "killed", ![p].fd = NoInode]
  /\ UNCHANGED <<coreVars, sessionVars, flightVars, analyticsVars, last, genFiles, inodeData,
                 cliConfig, runs>>

(***************************************************************************)
(* The generator's choice of the snapshot's name and metadata.  args is    *)
(* the set of command-line arguments; meta is <<>> when getCommitMeta()    *)
(* returns null and <<m>> when it returns m; null is <<>>.                 *)
(***************************************************************************)
fromHook(args) == "--fromHook" \in args
isInitial(args) == "--initial" \in args

RealMetadata(meta) ==
  [author |-> <<meta[1].author>>, message |-> meta[1].message, date |-> meta[1].date,
   hash |-> <<meta[1].hash>>]

Placeholder(message, day) == [author |-> <<>>, message |-> message, date |-> day]

\* main() with the --initial flag tested first.
snapshot_InitialFirst(args, meta, day) ==
  IF isInitial(args)
  THEN [outPath |-> <<"initial.json">>,
        metadata |-> Placeholder("INITIAL_SNAPSHOT", day)]
  ELSE IF fromHook(args)
  THEN IF meta = <<>>
       THEN [outPath |-> <<"commit-unknown.json">>,
             metadata |-> Placeholder("UNKNOWN", day)]
       ELSE [outPath |-> <<"commit-", meta[1].hash, ".json">>,
             metadata |-> RealMetadata(meta)]
  ELSE IF meta # <<>>
       THEN [outPath |-> <<"commit-", meta[1].hash, ".json">>,
             metadata |-> RealMetadata(meta)]
       ELSE [outPath |-> <<"manual.json">>,
             metadata |-> Placeholder("MANUAL_SNAPSHOT", day)]

\* main(): metadata and outPath (relative to the payload directory) from
\* the flags and from getCommitMeta(); day is todayShort().
snapshot(args, meta, day) ==
  IF fromHook(args)
  THEN IF meta = <<>>
       THEN [outPath |-> <<"commit-unknown.json">>,
             metadata |-> Placeholder("UNKNOWN", day)]
       ELSE [outPath |-> <<"commit-", meta[1].hash, ".json">>,
             metadata |-> RealMetadata(meta)]
  ELSE IF isInitial(args)
  THEN [outPath |-> <<"initial.json">>,
        metadata |-> Placeholder("INITIAL_SNAPSHOT", day)]
  ELSE IF meta # <<>>
       THEN [outPath |-> <<"commit-", meta[1].hash, ".json">>,
             metadata |-> RealMetadata(meta)]
       ELSE [outPath |-> <<"manual.json">>,
             metadata |-> Placeholder("MANUAL_SNAPSHOT", day)]

\* One run of main() with nothing else running, up to the snapshot's write:
\* writes is the sequence of its writeFileSyncAtomic() calls on payload
\* files.
GenMain(args, meta) ==
  /\ LET s == snapshot(args, meta, today)
     IN last' = [op |-> "main", ok |-> TRUE, err |-> NoErr, args |-> args,
                 meta |-> meta, day |-> today,
                 writes |-> <<[outPath |-> s.outPath,
                               payload |-> [projectName |-> "alpha",
                                            metadata |-> s.metadata]]>>]
  /\ UNCHANGED <<coreVars, extVars>>

(***************************************************************************)
(* Notifications.  useNotification() keeps the notifications in a useState *)
(* of the component that calls it; NotificationContainer renders one       *)
(* Notification component for every entry of its own state.  A duration is *)
(* <<>> when the caller gave none and <<ms>> otherwise.                    *)
(***************************************************************************)
DefaultDuration == 5000
FadeOut == 300

\* The callers of showSuccess, showError and showInfo.
Callers == {"ModelSelector", "Settings"}

\* NotificationContainer's render: a Notification component for every entry
\* of the container's own notifications, new ones mounted visible with the
\* timer of their duration, the others kept as they are.
Render(containerStack, mounted) ==
  {o \in mounted : \E i \in 1..Len(containerStack) : containerStack[i].id = o.id}
  \cup {[id |-> containerStack[i].id, isVisible |-> TRUE,
         timer |-> IF containerStack[i].duration = <<>> THEN DefaultDuration
                   ELSE containerStack[i].duration[1]] :
          i \in {j \in 1..Len(containerStack) :
                   \A o \in mounted : o.id # containerStack[j].id}}

\* addNotification(message, type, duration) in the component hook: the entry
\* is appended to that component's state, and the container renders.
ShowNotification(hook, type, duration) ==
  /\ phase # "off"
  /\ hook = "Settings" => settingsMounted
  /\ notified < MaxNotifications
  /\ notified' = notified + 1
  /\ stacks' = [stacks EXCEPT ![hook] =
                  Append(@, [id |-> notified + 1, type |-> type, duration |-> duration])]
  /\ overlay' = Render(stacks'["NotificationContainer"], overlay)
  /\ UNCHANGED <<coreVars, flightVars, analyticsVars, genVars, last, switchReq,
                 settingsMounted, chat>>

\* The user opens or leaves the Settings page: an unmounted page loses its
\* state.
Navigate ==
  /\ phase # "off"
  /\ settingsMounted' = ~settingsMounted
  /\ stacks' = IF settingsMounted THEN [stacks EXCEPT !["Settings"] = <<>>] ELSE stacks
  /\ UNCHANGED <<coreVars, flightVars, analyticsVars, genVars, last, switchReq,
                 overlay, notified, chat>>

\* Time passes: the timer of every rendered Notification fires.  A visible
\* one turns invisible and waits for the fade-out (the same as a click on
\* its close button); one that has faded out calls onClose, which removes
\* its entry from the container's state.
Elapse ==
  /\ phase # "off"
  /\ LET closed == {o.id : o \in {m \in overlay : ~m.isVisible}}
         kept == SelectSeq(stacks["NotificationContainer"], LAMBDA n : n.id \notin closed)
     IN /\ stacks' = [stacks EXCEPT !["NotificationContainer"] = kept]
        /\ overlay' = {[o EXCEPT !.isVisible = FALSE, !.timer = FadeOut] :
                         o \in Render(kept, overlay)}
  /\ UNCHANGED <<coreVars, flightVars, analyticsVars, genVars, last, switchReq,
                 settingsMounted, notified, chat>>

(***************************************************************************)
(* The inputs of the calls.                                                *)
(***************************************************************************)
LLMProviderArgs == {"ollama", "gemini", "claude"}
LLMOptionArgs ==
  {[apiKey |-> NoKey, model |-> NoModel], [apiKey |-> KeyValid, model |-> NoModel],
   [apiKey |-> KeyBad, model |-> NoModel], [apiKey |-> NoKey, model |-> "llama3"]}
EmbeddingProviderArgs == {"ollama", "huggingface", "openai", "cohere"}
EmbeddingKeyArgs == {NoKey, KeyShort}

\* The model manager alone: no document is ingested.
NextManager ==
  \/ Launch
  \/ Quit
  \/ ToggleOllama
  \/ \E p \in LLMProviderArgs, o \in LLMOptionArgs : SetLLMProvider(p, o)
  \/ \E p \in EmbeddingProviderArgs, a \in EmbeddingKeyArgs : SetEmbeddingProvider(p, a)
  \/ GetConfig

SpecManager == Init /\ [][NextManager]_vars

\* Every outcome an embedding request may have with an adapter of one of
\* providers ("" when there is none), the vectors limited to vecs.
EmbedArgs(providers, vecs) ==
  {e \in UNION {EmbedResults([provider |-> p]) : p \in providers} :
     e.err # NoErr \/ e.vec \in vecs}

\* Every outcome a generation request may have with an adapter of one of kinds.
GenerateArgs(kinds) == UNION {GenerateResults([kind |-> k]) : k \in kinds}

FileArgs ==
  {[path |-> "src/a.js", content |-> <<>>],
   [path |-> "src/a.js", content |-> <<"\t", "\r", "\n">>],
   [path |-> "lib/b.py", content |-> <<"\r", "\n", "a", "\t">>]}

SeqsUpTo(S, n) == UNION {[1..len -> S] : len \in 0..n}

\* The whole application with one project, one file and one vector.
AppMetadata == [project_name |-> "alpha", file_path |-> "src/a.js", author |-> "alice"]
AppCommit ==
  [projectName |-> "alpha", metadata |-> [author |-> "alice"],
   files |-> <<[path |-> "src/a.js", content |-> <<"\r", "\n", "a", "\t">>]>>]
AppVectors == {<<1, 0>>}
AppEmbedArgs == EmbedArgs({"", "ollama", "cohere"}, AppVectors)

NextApp ==
  \/ Launch
  \/ Quit
  \/ ToggleOllama
  \/ SetLLMProvider("ollama", [apiKey |-> NoKey, model |-> NoModel])
  \/ \E p \in {"ollama", "cohere"} : SetEmbeddingProvider(p, NoKey)
  \/ \E id \in 1..NumIds, e \in AppEmbedArgs :
       IngestDocument(<<"a">>, AppMetadata, id, e)
  \/ \E ids \in [1..1 -> 1..NumIds], es \in [1..1 -> AppEmbedArgs] :
       IngestCommit(AppCommit, ids, es)
  \/ \E count \in {0, 1} :
       \E ids \in [1..count -> 1..NumIds], es \in [1..count -> AppEmbedArgs] :
         BulkIngestDemo(count, ids, es)
  \/ \E pr \in {NoProject, "alpha"}, e \in AppEmbedArgs, g \in GenerateArgs({"none", "ollama"}) :
       Search(1, pr, e, g)
  \/ \E e \in AppEmbedArgs, g \in GenerateArgs({"none", "ollama"}) : Query(1, e, g)
  \/ GetProjects

SpecApp == Init /\ [][NextApp]_vars

\* Commit ingestion after a launch: every payload of up to MaxFiles files.
\* The ids of one payload's files: all the same, or all different.
CommitIds(len) == {[i \in 1..len |-> 1], [i \in 1..len |-> i]}
CommitEmbedArgs == EmbedArgs({"", "ollama"}, AppVectors)
CommitArgs ==
  {[projectName |-> "alpha", metadata |-> [author |-> "alice"], files |-> fs] :
     fs \in SeqsUpTo(FileArgs, MaxFiles)}

NextCommit ==
  \/ Launch
  \/ \E c \in CommitArgs :
       \E ids \in CommitIds(Len(c.files)),
          es \in [1..Len(c.files) -> CommitEmbedArgs] :
         IngestCommit(c, ids, es)

SpecCommit == Init /\ [][NextCommit]_vars

\* Ingestion and search after a launch: two projects, the vectors of the
\* local runtime.
SearchVectors == {<<3, 4>>, <<-1, 0>>}
SearchEmbedArgs == EmbedArgs({"", "ollama"}, SearchVectors)
SearchMetadata ==
  {[project_name |-> "alpha", file_path |-> "src/a.js", author |-> "alice"],
   [project_name |-> "beta", file_path |-> "lib/b.py", author |-> ""]}

NextSearch ==
  \/ Launch
  \/ \E md \in SearchMetadata, id \in 1..NumIds, e \in SearchEmbedArgs :
       IngestDocument(<<"a">>, md, id, e)
  \/ \E k \in 1..MaxK, pr \in Projects \cup {NoProject},
        e \in SearchEmbedArgs, g \in GenerateArgs({"none", "ollama"}) :
       Search(k, pr, e, g)
  \/ \E k \in 1..MaxK, e \in SearchEmbedArgs, g \in GenerateArgs({"none", "ollama"}) : Query(k, e, g)

SpecSearch == Init /\ [][NextSearch]_vars

\* One search and one ingestion at a time, overlapping in every way.
FlightEmbedArgs == EmbedArgs({"", "ollama"}, AppVectors)

NextFlight ==
  \/ Launch
  \/ SearchStart(MaxDocs, NoProject)
  \/ \E e \in FlightEmbedArgs : SearchEmbedded(e)
  \/ \E g \in GenerateArgs({"none", "ollama"}) : SearchGenerated(g)
  \/ \E id \in 1..NumIds : IngestStart(<<"a">>, AppMetadata, id)
  \/ \E e \in FlightEmbedArgs : IngestEmbedded(e)

SpecFlight == Init /\ [][NextFlight]_vars

\* File paths: every extension of the table and some others, the special
\* names and their variants, at the top level and inside directories.
ExtensionArgs ==
  {"js", "jsx", "ts", "tsx", "py", "java", "cpp", "cc", "cxx", "c++", "c", "h", "cs",
   "php", "rb", "go", "rs", "kt", "swift", "html", "htm", "css", "scss", "sass", "less",
   "vue", "json", "yaml", "yml", "xml", "toml", "ini", "md", "markdown", "txt", "rst",
   "sh", "bash", "JS", "xyz", "example", "env"}
NameArgs ==
  {<<"app", ".", x>> : x \in ExtensionArgs}
  \cup {<<"package", ".", "json">>, <<"Package", ".", "json">>, <<"package">>,
        <<"dockerfile">>, <<"Dockerfile">>, <<"Dockerfile", ".", "dev">>,
        <<".", "env">>, <<".", "env", ".", "example">>, <<".", "env", ".", "local">>,
        <<"makefile">>, <<"Makefile">>, <<"README">>, <<".", "json">>,
        <<"app", ".", "min", ".", "js">>, <<"app", ".">>}
DirArgs == {<<>>, <<"src", "/">>, <<"v1", ".", "js", "/", "lib", "/">>}
PathArgs == {d \o n : d \in DirArgs, n \in NameArgs}

NextFileType ==
  \/ Launch
  \/ \E filePath \in PathArgs : GetFileType(filePath)

SpecFileType == Init /\ [][NextFileType]_vars

\* Ingestion of documents of two projects by two authors or by none, and
\* the project list.
ProjectsMetadata ==
  {[project_name |-> p, file_path |-> "src/a.js", author |-> a] :
     p \in Projects, a \in {"alice", "bob", ""}}

NextProjects ==
  \/ Launch
  \/ \E md \in ProjectsMetadata, id \in 1..NumIds, e \in CommitEmbedArgs :
       IngestDocument(<<"a">>, md, id, e)
  \/ GetProjects

SpecProjects == Init /\ [][NextProjects]_vars

\* Requests at the two boundaries, well-formed or lacking a field.
SearchBodies ==
  {[query |-> "q", k |-> 1], [query |-> "q"], [k |-> 1],
   [query |-> "", projectName |-> "alpha"]}
IngestBodies ==
  {[text |-> <<"a">>, metadata |-> AppMetadata], [metadata |-> AppMetadata],
   [text |-> <<>>, metadata |-> AppMetadata]}
CommitBodies ==
  LET files == [isArray |-> TRUE, items |-> AppCommit.files]
  IN {[projectName |-> "alpha", metadata |-> AppCommit.metadata, files |-> files],
      [metadata |-> AppCommit.metadata, files |-> files],
      [projectName |-> "", metadata |-> AppCommit.metadata, files |-> files],
      [projectName |-> "alpha", metadata |-> AppCommit.metadata],
      [projectName |-> "alpha", metadata |-> AppCommit.metadata,
       files |-> [isArray |-> FALSE]]}

NextBoundary ==
  \/ Launch
  \/ ToggleOllama
  \/ \E body \in CommitBodies, ids \in [1..1 -> 1..NumIds], es \in [1..1 -> CommitEmbedArgs] :
       HttpIngestCommit(body, ids, es)
  \/ HttpProjects
  \/ \E body \in SearchBodies, e \in CommitEmbedArgs, g \in GenerateArgs({"none", "ollama"}) :
       HttpSearch(body, e, g)
  \/ \E body \in IngestBodies, id \in 1..NumIds, e \in CommitEmbedArgs :
       HttpIngest(body, id, e)
  \/ \E body \in SearchBodies, e \in CommitEmbedArgs, g \in GenerateArgs({"none", "ollama"}) :
       HttpQuery(body, e, g)
  \/ \E body \in CommitBodies, ids \in [1..1 -> 1..NumIds], es \in [1..1 -> CommitEmbedArgs] :
       IpcIngestCommit(body, ids, es)
  \/ \E args \in SearchBodies, e \in CommitEmbedArgs, g \in GenerateArgs({"none", "ollama"}) :
       IpcSearch(args, e, g)
  \/ \E args \in SearchBodies, e \in CommitEmbedArgs, g \in GenerateArgs({"none", "ollama"}) :
       IpcQuery(args, e, g)
  \/ \E args \in IngestBodies, id \in 1..NumIds, e \in CommitEmbedArgs :
       IpcIngest(args, id, e)

SpecBoundary == Init /\ [][NextBoundary]_vars

\* The analytics service called for two projects, with metrics of recent
\* and of old commits, over MaxDay + 1 days.
MetricsArgs ==
  {[content |-> "a",
    metadata |-> [project_name |-> "alpha", file_path |-> "src/a.js", commit_date |-> 0]],
   [content |-> "a\nb",
    metadata |-> [project_name |-> "alpha", file_path |-> "src/a.js",
                  commit_date |-> (0 - HealthDays - 1) * 24]],
   [content |-> "a\nb",
    metadata |-> [project_name |-> "beta", file_path |-> "lib/b.py", commit_date |-> 0]]}

NextAnalytics ==
  \/ \E a \in MetricsArgs : AnalyzeCodeHealth(1, a.content, a.metadata)
  \/ \E p \in Projects : GenerateProjectAnalytics(p)
  \/ AdvanceDay

SpecAnalytics == Init /\ [][NextAnalytics]_vars

\* Commits of two projects tracked in any order of their dates, each with
\* up to two files.
EvolutionFiles ==
  {[path |-> "src/a.js", content |-> "a"],
   [path |-> "lib/b.py", content |-> "a\nb"]}
EvolutionArgs ==
  {[projectName |-> p, metadata |-> [date |-> d], files |-> fs] :
     p \in Projects, d \in {0, 2, 5}, fs \in SeqsUpTo(EvolutionFiles, 2)}

NextEvolution ==
  \E c \in EvolutionArgs : TrackCodeEvolution(c)

SpecEvolution == Init /\ [][NextEvolution]_vars

\* Two generator processes writing the same snapshot file, each killed or
\* not, the backend not running.
NextSnapshot ==
  \/ \E p \in Procs : GenOpen(p)
  \/ \E p \in Procs : GenWrite(p)
  \/ \E p \in Procs : GenRename(p)
  \/ \E p \in Procs : GenPush(p, "refused", FALSE)
  \/ \E p \in Procs : GenKill(p)

SpecSnapshot == Init /\ [][NextSnapshot]_vars

\* One generator process run again and again, with every push outcome and
\* every config file.
NextGenerator ==
  \/ \E f \in CliConfigFiles : EditCliConfig(f)
  \/ GenOpen(1)
  \/ GenWrite(1)
  \/ GenRename(1)
  \/ \E outcome \in PushOutcomes, saved \in BOOLEAN : GenPush(1, outcome, saved)
  \/ GenKill(1)

SpecGenerator == Init /\ [][NextGenerator]_vars

\* Runs of the generator with every combination of flags, in a repository
\* whose git metadata is readable or not, on several days.
FlagArgs == SUBSET {"--fromHook", "--initial", "--verbose"}
CommitMetas ==
  {<<>>}
  \cup {<<[author |-> "alice", message |-> m, date |-> d, hash |-> h]>> :
          m \in {"fix parser", "UNKNOWN"}, d \in {0 - 1, 0}, h \in {"a1b2c3d", "e4f5a6b"}}

NextPayload ==
  \/ AdvanceDay
  \/ \E args \in FlagArgs, meta \in CommitMetas : GenMain(args, meta)

SpecPayload == Init /\ [][NextPayload]_vars

\* The UI calling every function of the bridge while the application is
\* started, closed and reconfigured.
NextBridge ==
  \/ Launch
  \/ Quit
  \/ ToggleOllama
  \/ \E p \in {"ollama", "cohere"} : SetEmbeddingProvider(p, NoKey)
  \/ \E fn \in DOMAIN electronAPI, arg \in {"object", "undefined"} : BridgeCall(fn, arg)

SpecBridge == Init /\ [][NextBridge]_vars

\* The metrics of contents made of two fragments: keywords between spaces
\* and inside words, operators with and without spaces, functions of 21
\* and of 20 lines, with and without literals, literals of three digits
\* and shorter.
TenLines == "\n\n\n\n\n\n\n\n\n\n"
Fragments ==
  {"", "x", "if (a) ", "else ", "elsewhere ", "a&&b ", "a && b ", "a||b ",
   "for while switch case catch ",
   "function f() {" \o TenLines \o TenLines \o "}",
   "function g(a, b) {" \o TenLines \o "\n\n\n\n\n\n\n\n\n" \o "}",
   "function h() { return 1; }",
   "function k() { return 100 + 200 + 300 + 400 + 500 + 600;" \o TenLines \o TenLines \o "}",
   "100 200 300 400 500 ", "600 ", "12 x100 "}
ContentArgs == {a \o b : a \in Fragments, b \in Fragments}

NextMetrics ==
  \E content \in ContentArgs : CalculateCodeMetrics(content)

SpecMetrics == Init /\ [][NextMetrics]_vars

\* The health score of a project whose files are short or long, commented
\* or not, with or without the patterns the security score looks for.
HealthContents ==
  {"", "// a\n// b\nc", "eval (x); innerHTML = y; document.write(z); sql + q; password = p;",
   "if (a) { b } else { c } for while switch case catch if if if if if if if if if if if if"}
HealthArgs ==
  {[content |-> c,
    metadata |-> [project_name |-> "alpha", file_path |-> "src/a.js", commit_date |-> 0]] :
     c \in HealthContents}

NextHealth ==
  \/ \E a \in HealthArgs : AnalyzeCodeHealth(1, a.content, a.metadata)
  \/ \E p \in Projects : GenerateProjectAnalytics(p)
  \/ AdvanceDay

SpecHealth == Init /\ [][NextHealth]_vars

\* One session of the window: notifications of every type and duration
\* added from the two callers, while the user moves between pages and time
\* passes.  The browser runs every timer that is due.
NextNotify ==
  \/ Launch
  \/ \E h \in Callers, type \in {"success", "error", "info"},
        duration \in {<<>>, <<3000>>} : ShowNotification(h, type, duration)
  \/ Navigate
  \/ Elapse

SpecNotify == Init /\ [][NextNotify]_vars /\ WF_vars(Elapse)

\* Switches of the generation provider with and without a model name,
\* and queries between them.
ModelOptionArgs ==
  {[apiKey |-> NoKey, model |-> NoModel], [apiKey |-> NoKey, model |-> "llama3"],
   [apiKey |-> NoKey, model |-> "mistral"], [apiKey |-> KeyValid, model |-> "llama3"]}

NextModel ==
  \/ Launch
  \/ ToggleOllama
  \/ \E p \in {"ollama", "gemini"}, o \in ModelOptionArgs : SetLLMProvider(p, o)
  \/ \E e \in AppEmbedArgs, g \in GenerateArgs({"none", "ollama", "gemini"}) : Query(1, e, g)

SpecModel == Init /\ [][NextModel]_vars

(***************************************************************************)
(* The Chat page.  chat.query is the textarea's text, chat.result and      *)
(* chat.error are <<>> for null, chat.inFlight holds the searchRAG calls   *)
(* that have not been answered, each with the number of its submission.    *)
(***************************************************************************)
ErrQueryFailed == "Query failed"

\* text.replace('%', ''): without its first percent sign.
ReplacePercent(text) ==
  LET at == Occurrences(text, "%")
  IN IF at = {} THEN text
     ELSE LET i == CHOOSE i \in at : \A j \in at : i <= j
          IN SubSeq(text, 1, i - 1) \o SubSeq(text, i + 1, Len(text))

DigitValue(c) == CHOOSE d \in 0..9 : Digits[d + 1] = c

\* The digits of text from index i on, read as a number.
RECURSIVE ParseDigits(_, _, _)
ParseDigits(text, i, acc) ==
  IF IsDigit(At(text, i)) THEN ParseDigits(text, i + 1, acc * 10 + DigitValue(At(text, i)))
  ELSE [value |-> acc, next |-> i]

\* parseFloat(text) in tenths, for a text with at most one decimal; <<>>
\* stands for NaN.
parseFloat(text) ==
  LET negative == At(text, 1) = "-"
      start == IF negative THEN 2 ELSE 1
      int == ParseDigits(text, start, 0)
      tenths == IF At(text, int.next) = "." /\ IsDigit(At(text, int.next + 1))
                THEN DigitValue(At(text, int.next + 1)) ELSE 0
  IN IF ~IsDigit(At(text, start)) THEN <<>>
     ELSE <<(IF negative THEN -1 ELSE 1) * (int.value * 10 + tenths)>>

\* sources.filter(source => parseFloat(...) > 40); a comparison with NaN is
\* false.
RECURSIVE FilterSources(_)
FilterSources(sources) ==
  IF sources = <<>> THEN <<>>
  ELSE LET score == parseFloat(ReplacePercent(Head(sources).relevance_score))
       IN (IF score # <<>> /\ score[1] > 400 THEN <<Head(sources)>> ELSE <<>>)
          \o FilterSources(Tail(sources))

\* handleQuery() up to its await.
handleQuery(c) ==
  IF Trim(c.query) = <<>> THEN c
  ELSE [c EXCEPT !.loading = TRUE, !.error = <<>>, !.submitted = @ + 1,
                 !.inFlight = @ \cup {[id |-> c.submitted + 1, query |-> Trim(c.query)]}]

\* onChange of the textarea
ChatType(text) ==
  /\ phase # "off"
  /\ chat' = [chat EXCEPT !.query = text]
  /\ UNCHANGED <<coreVars, flightVars, analyticsVars, genVars, last, switchReq,
                 stacks, overlay, settingsMounted, notified>>

\* handleKeyPress with Enter and without Shift
ChatEnter ==
  /\ phase # "off"
  /\ Trim(chat.query) = <<>> \/ chat.submitted < MaxQueries
  /\ chat' = handleQuery(chat)
  /\ UNCHANGED <<coreVars, flightVars, analyticsVars, genVars, last, switchReq,
                 stacks, overlay, settingsMounted, notified>>

\* onClick of the Ask AI button, which is disabled while loading or when the
\* query is blank.
ChatClick ==
  /\ phase # "off"
  /\ ~(chat.loading \/ Trim(chat.query) = <<>>)
  /\ chat.submitted < MaxQueries
  /\ chat' = handleQuery(chat)
  /\ UNCHANGED <<coreVars, flightVars, analyticsVars, genVars, last, switchReq,
                 stacks, overlay, settingsMounted, notified>>

\* handleQuery() from the answer of one of its searchRAG calls on; a
\* response of <<>> stands for a rejected call.
ChatRespond(req, response) ==
  /\ req \in chat.inFlight
  /\ chat' = [chat EXCEPT
       !.inFlight = @ \ {req},
       !.result = IF response # <<>> /\ response[1].success
                  THEN <<[answer |-> req.id, query |-> req.query,
                          sources |-> FilterSources(response[1].sources)]>>
                  ELSE @,
       !.error = IF response = <<>> THEN <<"Unknown error">>
                 ELSE IF response[1].success THEN @
                 ELSE IF response[1].error # NoErr THEN <<response[1].error>>
                 ELSE <<ErrQueryFailed>>,
       !.loading = FALSE]
  /\ UNCHANGED <<coreVars, flightVars, analyticsVars, genVars, last, switchReq,
                 stacks, overlay, settingsMounted, notified>>

\* The queries a user types and the calls that can be in flight.
QueryArgs == {<<>>, <<" ">>, <<"a">>, <<" ", "b">>}

ChatRequests == [id : 1..MaxQueries, query : {Trim(q) : q \in QueryArgs} \ {<<>>}]

\* The answers of searchRAG: sources above, at and below the threshold of
\* 40 percent, a failure with and without a message, and a rejection.
ChatResponses ==
  {<<[success |-> TRUE, error |-> NoErr,
      sources |-> <<[relevance_score |-> RelevanceScore(450)],
                    [relevance_score |-> RelevanceScore(400)],
                    [relevance_score |-> RelevanceScore(-1000)]>>]>>,
   <<[success |-> TRUE, error |-> NoErr, sources |-> <<>>]>>,
   <<[success |-> FALSE, error |-> "Search failed", sources |-> <<>>]>>,
   <<[success |-> FALSE, error |-> NoErr, sources |-> <<>>]>>,
   <<>>}

NextChat ==
  \/ Launch
  \/ \E text \in QueryArgs : ChatType(text)
  \/ ChatEnter
  \/ ChatClick
  \/ \E req \in ChatRequests, response \in ChatResponses : ChatRespond(req, response)

SpecChat == Init /\ [][NextChat]_vars

\* Ingestions and searches between switches of the embedding provider:
\* the local runtime returns vectors of length 2, the hosted one of length 3.
DimsVectors == {<<1, 0>>, <<-1, 0>>, <<1, 0, 0>>, <<0, 3, 4>>}
DimsEmbedArgs == EmbedArgs({"", "ollama", "huggingface"}, DimsVectors)

NextDims ==
  \/ Launch
  \/ \E p \in {"ollama", "huggingface"} : SetEmbeddingProvider(p, KeyShort)
  \/ \E id \in 1..NumIds, e \in DimsEmbedArgs : IngestDocument(<<"a">>, AppMetadata, id, e)
  \/ \E k \in 1..MaxK, e \in DimsEmbedArgs, g \in GenerateArgs({"none", "ollama"}) :
       Search(k, NoProject, e, g)

SpecDims == Init /\ [][NextDims]_vars

\* Searches that overlap switches of the generation provider, to the
\* local runtime or to the hosted API with a valid or an invalid key.
SwitchOptionArgs ==
  {[apiKey |-> NoKey, model |-> NoModel], [apiKey |-> KeyValid, model |-> NoModel],
   [apiKey |-> KeyBad, model |-> NoModel]}

NextSwitch ==
  \/ Launch
  \/ ToggleOllama
  \/ \E p \in {"ollama", "gemini"}, o \in SwitchOptionArgs : SwitchLLMBegin(p, o)
  \/ SwitchLLMResume
  \/ SearchStart(1, NoProject)
  \/ \E e \in FlightEmbedArgs : SearchEmbedded(e)
  \/ \E g \in GenerateArgs({"none", "ollama", "gemini"}) : SearchGenerated(g)

SpecSwitch == Init /\ [][NextSwitch]_vars

(***************************************************************************)
(* Properties of the model manager, checked under SpecManager.             *)
(***************************************************************************)
SavedConfig == [exists |-> TRUE, data |-> config]

\* C1: after a setLLMProvider call that failed, the configuration in memory
\* and in the config file is the configuration before the call, and the
\* active generation adapter is an initialized adapter of the previous
\* provider.
C1_RollbackRestoresEverything ==
  (last.op = "setLLMProvider" /\ ~last.ok) =>
     /\ config = last.pre
     /\ file = [exists |-> TRUE, data |-> last.pre]
     /\ llmService.kind = last.pre.llmProvider
     /\ llmService.initialized

\* C2: the message setLLMProvider throws is the message of the requested
\* provider's initialization error, whatever the rollback does.
C2_OriginalErrorRethrown ==
  (last.op = "setLLMProvider" /\ ~last.ok) => last.err = last.origErr

RawKeyIn(ret, key) ==
  /\ key # NoKey
  /\ \/ ret.geminiApiKey = key
     \/ ret.huggingfaceApiKey = key
     \/ ret.openaiApiKey = key
     \/ ret.maskedKeys.gemini = key
     \/ ret.maskedKeys.huggingface = key
     \/ ret.maskedKeys.openai = key

\* C5: the object getConfig() returns holds none of the stored keys in
\* raw form.
C5_NoRawKeyInGetConfig ==
  last.op = "getConfig" =>
     \A key \in {config.geminiApiKey, config.huggingfaceApiKey, config.openaiApiKey} :
        ~RawKeyIn(last.ret, key)

\* C6: while no initialization of an adapter has resolved, its getter
\* throws the 'not initialized' error.
C6_GettersThrowUntilInitialized ==
  /\ ~llmInitOk => getLLMService(llmService).err = ErrLLMNotInitialized
  /\ ~embInitOk => getEmbeddingService(embeddingService).err = ErrEmbeddingNotInitialized

(***************************************************************************)
(* Properties of the RAG service and of the shell.                         *)
(***************************************************************************)
ServiceOps ==
  {"search", "query", "ingestDocument", "ingestCommit", "bulkIngestDemo", "getProjects"}

EmbeddingUnavailable ==
  IF embeddingService.kind = "none" THEN ErrEmbeddingNotInitialized
  ELSE ErrUnsupportedEmbedding(embeddingService.provider)

IsSkipped(f) == Trim(cleanFileContent(f.content, f.path)) = <<>>

RECURSIVE NotSkipped(_)
NotSkipped(files) ==
  IF files = <<>> THEN <<>>
  ELSE (IF IsSkipped(Head(files)) THEN <<>> ELSE <<Head(files)>>) \o NotSkipped(Tail(files))

\* C8: the summary of ingestCommit counts every file of the payload, its
\* results list the files that are not skipped, in payload order, each as
\* success or error, and the skipped files are the difference.
C8_CommitSummary ==
  last.op = "ingestCommit" =>
     LET files == last.files
         ret == last.ret
         kept == NotSkipped(files)
         skipped == Cardinality({i \in 1..Len(files) : IsSkipped(files[i])})
         statusCount(st) ==
           Cardinality({j \in 1..Len(ret.results) : ret.results[j].status = st})
     IN /\ ret.total_files = Len(files)
        /\ Len(ret.results) = Len(kept)
        /\ \A j \in 1..Len(ret.results) :
             /\ ret.results[j].file_path = kept[j].path
             /\ ret.results[j].status \in {"success", "error"}
             /\ ret.results[j].status = "success" =>
                  \E i \in 1..Len(docs) : docs[i].id = ret.results[j].document_id
        /\ ret.successful = statusCount("success")
        /\ ret.failed = statusCount("error")
        /\ ret.successful + ret.failed = Len(ret.results)
        /\ ret.total_files - (ret.successful + ret.failed) = skipped

C8_Witness ==
  /\ last.op = "ingestCommit"
  /\ Len(last.files) = 2
  /\ Len(last.ret.results) = 2
  /\ last.ret.results[1].status = "error"
  /\ last.ret.results[2].status = "success"

Ids(rows) == {rows[i].id : i \in 1..Len(rows)}

\* A step of a successful rag:ingest call.
IngestOkStep ==
  /\ last'.op = "ingestDocument"
  /\ last'.ok
  /\ last' # last \/ docs' # docs

\* The ids the call of a step generated for the rows it stored.
GeneratedIds(l) ==
  CASE l.op = "ingestDocument" -> {l.ret.id}
    [] l.op = "ingestCommit" ->
         {l.ret.results[j].document_id :
            j \in {x \in 1..Len(l.ret.results) : l.ret.results[x].status = "success"}}
    [] l.op = "bulkIngestDemo" -> {l.ret.results[j].id : j \in 1..Len(l.ret.results)}
    [] OTHER -> {}

\* C9 as stated: no step deletes or overwrites a row, and every successful
\* ingestDocument call adds one row.
C9_RowsNeverOverwritten ==
  [][/\ Len(docs') >= Len(docs)
     /\ \A i \in 1..Len(docs) : docs'[i] = docs[i]
     /\ IngestOkStep => Len(docs') = Len(docs) + 1]_vars

\* C9, amended: no step deletes a row and the ids only grow; a row is
\* overwritten only by a call that generated that row's id again; a
\* successful ingestDocument call whose id is new appends one row, whatever
\* rows of the same project and path exist.
C9_RowsOnlyOverwrittenOnIdCollision ==
  [][/\ Len(docs') >= Len(docs)
     /\ Ids(docs) \subseteq Ids(docs')
     /\ \A i \in 1..Len(docs) :
          /\ docs'[i].id = docs[i].id
          /\ docs'[i] # docs[i] => docs[i].id \in GeneratedIds(last')
     /\ IngestOkStep =>
          IF last'.ret.id \in Ids(docs)
          THEN Len(docs') = Len(docs)
          ELSE /\ Len(docs') = Len(docs) + 1
               /\ SubSeq(docs', 1, Len(docs)) = docs
               /\ docs'[Len(docs')].id = last'.ret.id
               /\ docs'[Len(docs')].project_name = last'.metadata.project_name
               /\ docs'[Len(docs')].file_path = last'.metadata.file_path]_vars

C9_Witness ==
  /\ Len(docs) = 2
  /\ docs[1].project_name = docs[2].project_name
  /\ docs[1].file_path = docs[2].file_path
  /\ last.op = "ingestDocument"
  /\ last.ok
  /\ last.ret.id = docs[2].id

\* C10: a search that returns lists min(k, n) sources, n the number of
\* stored documents of the requested project (of all documents without a
\* project): they are stored documents of that project, each once, in
\* non-increasing score order, and no document left out scores higher.
C10_TopKSources ==
  (last.op \in {"search", "query"} /\ last.ok) =>
     LET q == last.queryEmbedding
         top == last.ret.topResults
         sources == last.ret.sources
         match == {i \in 1..Len(docs) :
                     last.projectName = NoProject
                     \/ docs[i].project_name = last.projectName}
         n == Cardinality(match)
     IN /\ Len(sources) = (IF last.k < n THEN last.k ELSE n)
        /\ Len(top) = Len(sources)
        /\ \A j \in 1..Len(top) :
             /\ \E i \in match :
                  /\ docs[i].id = top[j].id
                  /\ top[j].score = cosine(q, docs[i].embedding)
                  /\ sources[j].file_path = docs[i].file_path
                  /\ sources[j].preview = docs[i].text
             /\ sources[j].relevance_score = RelevanceScore(top[j].score)
             /\ \A j2 \in 1..Len(top) : top[j2].id = top[j].id => j2 = j
             /\ j < Len(top) => top[j].score >= top[j + 1].score
        /\ \A i \in match :
             (\A j \in 1..Len(top) : top[j].id # docs[i].id) =>
                \A j \in 1..Len(top) : cosine(q, docs[i].embedding) <= top[j].score

C10_Witness ==
  /\ last.op = "search"
  /\ last.ok
  /\ last.k = 1
  /\ last.projectName = "alpha"
  /\ Len(docs) = 2
  /\ docs[1].project_name = "alpha"
  /\ docs[2].project_name = "alpha"
  /\ Len(last.ret.sources) = 1
  /\ last.ret.topResults[1].id = docs[2].id
  /\ last.ret.topResults[1].score > cosine(last.queryEmbedding, docs[1].embedding)

(***************************************************************************)
(* Overlapping calls, checked under SpecFlight.                            *)
(***************************************************************************)
Overlapped ==
  /\ searchReq.pc = "done"
  /\ ingestReq.pc = "done"
  /\ searchReq.overlap
  /\ ingestReq.overlap

\* C11: when an ingestion and a search were in flight at the same time, the
\* search fails only if one of its own requests failed, the ingestion fails
\* only if its embedding request failed and otherwise its row is stored, and
\* the search ranked the new row exactly when the row was inserted before
\* the search read the table.
C11_OverlapIsHarmless ==
  Overlapped =>
     /\ searchReq.ok <=> (searchReq.e.err = NoErr /\ searchReq.g = NoErr)
     /\ ingestReq.ok <=> (ingestReq.e.err = NoErr)
     /\ ingestReq.ok => ingestReq.id \in {docs[i].id : i \in 1..Len(docs)}
     /\ (searchReq.ok /\ ingestReq.ok /\ ingestReq.fresh) =>
          (("included" \in Outcome(searchReq, ingestReq)) <=> ingestReq.beforeRead)

\* Both outcomes of an overlap have been seen: one search ranked the row
\* inserted during it, another did not.
C11_Witness == seen = {"included", "absent"}

(***************************************************************************)
(* File-type classification, checked under SpecFileType.                   *)
(***************************************************************************)
\* The classification table: the special basenames, then the extensions.
TableType(filePath) ==
  LET ext == Join(toLowerCase(extname(filePath)))
      base == Join(toLowerCase(basename(filePath)))
      byExtension ==
        [js |-> "javascript", jsx |-> "javascript", ts |-> "javascript",
         tsx |-> "javascript", py |-> "python", java |-> "java", cpp |-> "cpp",
         cc |-> "cpp", cxx |-> "cpp", c |-> "c", h |-> "c", cs |-> "csharp",
         php |-> "php", rb |-> "ruby", go |-> "go", rs |-> "rust", kt |-> "kotlin",
         swift |-> "swift", html |-> "html", htm |-> "html", css |-> "css",
         scss |-> "css", sass |-> "css", less |-> "css", vue |-> "vue",
         json |-> "json", yaml |-> "yaml", yml |-> "yaml", xml |-> "xml",
         toml |-> "toml", ini |-> "ini", md |-> "markdown", markdown |-> "markdown",
         txt |-> "text", rst |-> "rst", sh |-> "bash", bash |-> "bash"]
  IN CASE base = "package.json" -> "package-config"
       [] base = "dockerfile" -> "docker"
       [] base \in {".env", ".env.example"} -> "environment"
       [] base = "makefile" -> "makefile"
       [] ext = ".c++" -> "cpp"
       [] \E x \in DOMAIN byExtension : ext = "." \o x ->
            byExtension[CHOOSE x \in DOMAIN byExtension : ext = "." \o x]
       [] OTHER -> "unknown"

\* C12: getFileType gives every path the type of the classification table:
\* package-config, docker, environment and makefile for the special
\* basenames, the extension's type for a listed extension, unknown otherwise.
C12_FileTypeFollowsTable ==
  last.op = "getFileType" => last.ret = TableType(last.filePath)

(***************************************************************************)
(* The project list, checked under SpecProjects.                           *)
(***************************************************************************)
DocsOf(projectName) == {i \in 1..Len(docs) : docs[i].project_name = projectName}

RECURSIVE SumDocuments(_)
SumDocuments(entries) ==
  IF entries = <<>> THEN 0 ELSE Head(entries).documents + SumDocuments(Tail(entries))

C14_HttpFailuresAre400Or500 ==
  (last.op = "http" /\ ~last.ok) => last.status \in {400, 500}

\* C15: at the HTTP and at the IPC boundary a request that lacks a required
\* field (query, text, projectName, files) is answered with a structured
\* failure and no RAG service method is invoked for it.
C15_RejectedBeforeService ==
  (last.op \in {"http", "ipc"} /\ last.lacks) => (~last.ok /\ ~last.invoked)

(***************************************************************************)
(* Analytics on ingestion, checked under SpecCommit.                       *)
(***************************************************************************)
MetricsOf(documentId) ==
  {j \in 1..Len(codeMetrics) : codeMetrics[j].document_id = documentId}

\* C16: after an ingestCommit call, code_metrics holds exactly one row for
\* the id of every document the call stored.
C16_MetricsRowPerIngestedDocument ==
  last.op = "ingestCommit" =>
     \A id \in GeneratedIds(last) : Cardinality(MetricsOf(id)) = 1

(***************************************************************************)
(* The project summaries, checked under SpecAnalytics.                     *)
(***************************************************************************)
SameKey(r, projectName, day) == r.project_name = projectName /\ r.analysis_date = day

OneRowPerProjectAndDay ==
  \A i, j \in 1..Len(projectAnalytics) :
     SameKey(projectAnalytics[i], projectAnalytics[j].project_name,
             projectAnalytics[j].analysis_date) => i = j

\* A step of a generateProjectAnalytics call.
GenerateStep ==
  /\ last'.op = "generateProjectAnalytics"
  /\ last' # last \/ projectAnalytics' # projectAnalytics

\* C17: project_analytics never holds two rows of one project and one day;
\* a generateProjectAnalytics call leaves the row of its project and of the
\* current day with the values computed from the code_metrics rows of the
\* moment, whether or not there was such a row, and leaves the rows of other
\* projects and days as they were.
C17_OneSummaryPerProjectAndDay ==
  /\ []OneRowPerProjectAndDay
  /\ [][GenerateStep =>
          /\ SelectSeq(projectAnalytics', LAMBDA r : SameKey(r, last'.projectName, today))
               = <<[project_name |-> last'.projectName, analysis_date |-> today,
                    performance_score |-> 85,
                    overall_health_score |->
                      overallHealthScore(
                        getProjectHealthMetrics(codeMetrics, last'.projectName, today)),
                    total_files |-> Len(InWindow(codeMetrics, last'.projectName, today)),
                    total_lines |-> SumLines(InWindow(codeMetrics, last'.projectName, today)),
                    total_functions |->
                      SumLines(InWindow(codeMetrics, last'.projectName, today)) \div 20,
                    total_classes |->
                      SumLines(InWindow(codeMetrics, last'.projectName, today)) \div 100]>>
          /\ SelectSeq(projectAnalytics', LAMBDA r : ~SameKey(r, last'.projectName, today))
               = SelectSeq(projectAnalytics, LAMBDA r : ~SameKey(r, last'.projectName, today))
     ]_vars

\* A summary was computed again for a project and a day that had one, with
\* other values, while the table held another row.
C17_Witness ==
  /\ last.op = "generateProjectAnalytics"
  /\ last.prior # <<>>
  /\ last.prior # <<last.row>>
  /\ Len(projectAnalytics) >= 2

(***************************************************************************)
(* Code evolution, checked under SpecEvolution.                            *)
(***************************************************************************)
\* The rows inserted before row i for the project and the file of row i.
PriorRows(i) ==
  {j \in 1..(i - 1) : /\ codeEvolution[j].project_name = codeEvolution[i].project_name
                      /\ codeEvolution[j].file_path = codeEvolution[i].file_path}

LatestDate(rowIds) ==
  CHOOSE d \in {codeEvolution[j].commit_date : j \in rowIds} :
    \A j \in rowIds : codeEvolution[j].commit_date <= d

\* C18: the time_since_last_change of every code_evolution row is absent
\* when no row was inserted before it for its project and file, and is
\* otherwise its commit date minus the latest commit date among those rows,
\* in hours; rows of other projects or files do not count, and a row once
\* inserted stays as it is, in whatever order of dates the commits arrive.
C18_TimeSinceLastChange ==
  /\ [](\A i \in 1..Len(codeEvolution) :
          codeEvolution[i].time_since_last_change =
            IF PriorRows(i) = {} THEN <<>>
            ELSE <<codeEvolution[i].commit_date - LatestDate(PriorRows(i))>>)
  /\ [][/\ Len(codeEvolution') >= Len(codeEvolution)
        /\ SubSeq(codeEvolution', 1, Len(codeEvolution)) = codeEvolution]_vars

\* A commit older than the latest one of its file was tracked after it, with
\* a row of another file in between.
C18_Witness ==
  \E i \in 1..Len(codeEvolution) :
     /\ codeEvolution[i].time_since_last_change # <<>>
     /\ codeEvolution[i].time_since_last_change[1] < 0
     /\ \E j \in 1..(i - 1) : j \notin PriorRows(i) /\ PriorRows(i) \cap 1..(j - 1) # {}

(***************************************************************************)
(* The snapshot file, checked under SpecSnapshot.                          *)
(***************************************************************************)
CompleteOf(run) == [i \in 1..NumChunks |-> <<run, i>>]

TargetComplete ==
  genFiles.target # NoInode =>
     \E run \in 1..MaxRuns : inodeData[genFiles.target] = CompleteOf(run)

\* C19: the snapshot file, when it exists, holds at every instant the whole
\* payload of one run, with one process or two writing it and a process
\* killed at any point.
C19_TargetNeverPartial == TargetComplete

(***************************************************************************)
(* The generator's push, checked under SpecGenerator.                      *)
(***************************************************************************)
\* A step that changes .gw/config.json and is not the user's.
ConfigStep == cliConfig' # cliConfig /\ gen' # gen

\* C20: a run of the generator that has attempted its push, or skipped it,
\* has written its payload file before, whatever the outcome; and the run
\* changes the CLI config only when the response had success = true, setting
\* lastIngestion and lastCommitHash in the config it loaded.
C20_PayloadFirstConfigOnSuccess ==
  /\ [](\A p \in Procs :
          gen[p].pc = "exit" =>
             /\ gen[p].wrote
             /\ genFiles.target # NoInode
             /\ inodeData[genFiles.target] = [i \in 1..NumChunks |-> <<gen[p].run, i>>])
  /\ [][ConfigStep =>
          \E p \in Procs :
             /\ gen[p].pc = "written"
             /\ gen'[p].pushed = "success"
             /\ cliConfig'.data.lastIngestion = gen[p].run
             /\ cliConfig'.data.lastCommitHash = "h"
             /\ cliConfig'.data.electronUrl = gen[p].config.electronUrl
             /\ cliConfig'.data.autoIngest = gen[p].config.autoIngest]_vars

\* Runs have ended with the push disabled, with a failed push and with a
\* successful one, the config holding the successful run only.
C20_Witness ==
  /\ gen[1].pc = "exit"
  /\ gen[1].pushed \in {"timeout", "unparseable", "refused"}
  /\ gen[1].run = MaxRuns
  /\ cliConfig.exists
  /\ cliConfig.data.autoIngest
  /\ "lastIngestion" \in DOMAIN cliConfig.data
  /\ cliConfig.data.lastIngestion = 1

(***************************************************************************)
(* The snapshot's name and metadata, checked under SpecPayload.            *)
(***************************************************************************)
RealSnapshot(m) ==
  [outPath |-> <<"commit-", m.hash, ".json">>,
   payload |-> [projectName |-> "alpha",
                metadata |-> [author |-> <<m.author>>, message |-> m.message,
                              date |-> m.date, hash |-> <<m.hash>>]]]

PlaceholderSnapshot(name, message) ==
  [outPath |-> <<name>>,
   payload |-> [projectName |-> "alpha",
                metadata |-> [author |-> <<>>, message |-> message, date |-> last.day]]]

\* C21: a run of the generator writes exactly one payload file: with
\* --fromHook (with or without --initial) commit-<hash>.json with the real
\* metadata, or commit-unknown.json with message UNKNOWN when the metadata is
\* unreadable; otherwise with --initial initial.json with message
\* INITIAL_SNAPSHOT; with neither flag commit-<hash>.json with the real
\* metadata, or manual.json with message MANUAL_SNAPSHOT.
C21_OnePayloadByFlagsAndMetadata ==
  last.op = "main" =>
    /\ Len(last.writes) = 1
    /\ last.writes[1] =
         IF "--fromHook" \in last.args
         THEN IF last.meta = <<>> THEN PlaceholderSnapshot("commit-unknown.json", "UNKNOWN")
              ELSE RealSnapshot(last.meta[1])
         ELSE IF "--initial" \in last.args
         THEN PlaceholderSnapshot("initial.json", "INITIAL_SNAPSHOT")
         ELSE IF last.meta = <<>> THEN PlaceholderSnapshot("manual.json", "MANUAL_SNAPSHOT")
              ELSE RealSnapshot(last.meta[1])

\* Both flags were given in a repository whose metadata is readable.
C21_Witness ==
  /\ last.op = "main"
  /\ {"--fromHook", "--initial"} \subseteq last.args
  /\ last.meta # <<>>
  /\ last.writes[1].outPath = <<"commit-", "a1b2c3d", ".json">>

(***************************************************************************)
(* The preload bridge, checked under SpecBridge.                           *)
(***************************************************************************)
\* C22: every call of a function of the bridge invokes exactly one channel,
\* the channel has a handler in the main process, and the call is resolved
\* with a response instead of being rejected for a missing handler.
C22_BridgeCallsAreHandled ==
  last.op = "bridge" =>
    /\ Cardinality(last.channels) = 1
    /\ last.channels \subseteq ipcHandlers
    /\ last.err # ErrNoHandler

(***************************************************************************)
(* The code metrics, checked under SpecMetrics.                            *)
(***************************************************************************)
\* C23: codeSmellsCount is the number of the triggered smell categories, so
\* 0, 1 or 2: the long functions count once however many they are, and the
\* magic numbers count once when more than 5 literals of 3 or more digits
\* stand in the content.
C23_SmellsCountsCategories ==
  last.op = "calculateCodeMetrics" =>
    /\ last.ret.codeSmellsCount \in {0, 1, 2}
    /\ last.ret.codeSmellsCount = detectCodeSmells_Categories(last.content)

RECURSIVE SumWholeWords(_, _)
SumWholeWords(s, keywords) ==
  IF keywords = <<>> THEN 0
  ELSE MatchCount_Literal(s, Head(keywords)) + SumWholeWords(s, Tail(keywords))

\* C24: cyclomaticComplexity is 1 plus the number of whole-word occurrences
\* of the nine keywords; it is 1 for a content without any of them, whatever
\* the content's length.
C24_ComplexityCountsKeywords ==
  last.op = "calculateCodeMetrics" =>
    /\ last.ret.cyclomaticComplexity = 1 + SumWholeWords(last.content, complexityKeywords)
    /\ (\A i \in 1..Len(complexityKeywords) :
          Occurrences(last.content, complexityKeywords[i]) = {})
         => last.ret.cyclomaticComplexity = 1

(***************************************************************************)
(* The health score, checked under SpecHealth.                             *)
(***************************************************************************)
\* C25: whatever rows code_metrics holds, the overall health score that
\* generateProjectAnalytics computes lies between 0 and 100 (the score is in
\* thousandths).
C25_HealthScoreWithin0And100 ==
  last.op = "generateProjectAnalytics" =>
    last.row.overall_health_score \in 0..100000

(***************************************************************************)
(* Notifications, checked under SpecNotify.                                *)
(***************************************************************************)
\* The notification with this id is in the state of some component.
InStack(id) == \E h \in Hooks : \E i \in 1..Len(stacks[h]) : stacks[h][i].id = id

AllShown == \A id \in 1..MaxNotifications : InStack(id) => \E o \in overlay : o.id = id

\* C26: every notification added by a component is rendered by the global
\* overlay, and is eventually removed from the stack it was added to.
C26_ShownThenRemoved ==
  /\ []AllShown
  /\ \A id \in 1..MaxNotifications : InStack(id) ~> ~InStack(id)

(***************************************************************************)
(* The model of the local runtime, checked under SpecModel.                *)
(***************************************************************************)
\* A setLLMProvider('ollama', {model: M}) call with a model name.
ModelStep ==
  /\ last'.op = "setLLMProvider"
  /\ last' # last \/ config' # config
  /\ last'.provider = "ollama"
  /\ last'.options.model # NoModel

GetsLLMDuringSwitch ==
  /\ switchReq.pc = "testing"
  /\ searchReq.pc = "embedding"
  /\ searchReq'.pc = "generating"

\* C28: a search that runs while a provider switch is suspended at its
\* initialization obtains the adapter that was active before the switch, or
\* the new adapter once it is initialized; never an adapter whose
\* initialization has not succeeded.
C28_SearchNeverGetsUninitializedAdapter ==
  [][GetsLLMDuringSwitch =>
       \/ searchReq'.lsvc = switchReq.previousService
       \/ searchReq'.lsvc.initialized]_vars

(***************************************************************************)
(* The Chat page, checked under SpecChat.                                  *)
(***************************************************************************)
\* C29: the loading indicator is on while a query is in flight, and the
\* result on the page is never replaced by the response to a query that
\* was submitted earlier than the one whose response is shown.
C29_ResultIsOfLatestQuery ==
  /\ [](chat.inFlight # {} => chat.loading)
  /\ [][chat.result # <<>> /\ chat'.result # <<>>
          => chat'.result[1].answer >= chat.result[1].answer]_vars

(***************************************************************************)
(* Documents of another embedding provider, checked under SpecDims.        *)
(***************************************************************************)
\* The i-th result of the last search has a vector of another length than
\* the query's.
Stale(i) == Len(last.ret.topResults[i].embedding) # Len(last.queryEmbedding)

\* C30: in a search that succeeds, every result whose stored vector has
\* another length than the query's vector (a document of the provider
\* before the switch) scores exactly -1 and is reported with '-100.0%', no
\* document of the current length is placed after it unless it scores -1
\* too, and its stored vector is the one of its ingestion; a search or a
\* provider switch changes no stored document.
C30_StaleDocumentsScoreMinusOne ==
  /\ [](last.op = "search" /\ last.ok =>
          \A i \in 1..Len(last.ret.topResults) :
            Stale(i) =>
              /\ last.ret.topResults[i].score = -1000
              /\ last.ret.sources[i].relevance_score = "-100.0%"
              /\ \A j \in 1..Len(last.ret.topResults) :
                   ~Stale(j) =>
                     /\ last.ret.topResults[i].score <= last.ret.topResults[j].score
                     /\ j > i => last.ret.topResults[j].score = -1000
              /\ \E d \in 1..Len(docs) :
                   /\ docs[d].id = last.ret.topResults[i].id
                   /\ docs[d].embedding = last.ret.topResults[i].embedding)
  /\ [][last'.op \in {"search", "setEmbeddingProvider"} => docs' = docs]_vars

\* A search after a switch to the hosted provider returned a document of
\* the local runtime below a document embedded after the switch.
C30_Witness ==
  /\ last.op = "search" /\ last.ok
  /\ embeddingService.provider = "huggingface"
  /\ \E i, j \in 1..Len(last.ret.topResults) :
       /\ Stale(i) /\ ~Stale(j)
       /\ Len(last.ret.topResults[i].embedding) = 2
       /\ last.ret.topResults[j].score > -1000

====
